---- MODULE Spec2Model ----
(***************************************************************************)
(* Model of rfpipe's detection core (rfpipe/search.py, rfpipe/util.py):    *)
(* the dedispersion / resampling kernels, the visibility gridder and the   *)
(* threshold-and-extract loop over the DM x dt trial grid.                 *)
(*                                                                         *)
(* Conventions                                                             *)
(*  - A visibility cube is a sequence over integrations of sequences over  *)
(*    baselines of sequences over channels of sequences over               *)
(*    polarizations: data[i+1][j+1][k+1][l+1] is numpy's data[i, j, k, l]. *)
(*  - A sample is an exact rational <<num, den>> in lowest terms with      *)
(*    den > 0 (complex64 arithmetic idealised to exact arithmetic).        *)
(*  - Loop indices keep the 0-based values of the source.                  *)
(***************************************************************************)
EXTENDS Integers, Sequences, FiniteSets, TLC

(***************************************************************************)
(* Bounds of the model.                                                    *)
(***************************************************************************)
MaxNint == 6
MaxCells == 6
MaxDelay == 2
MaxDt == 3
MaxGridCells == 2
MaxU == 4
MaxV == 2
SearchNint == 11
NCalls == 2
MaxTrials == 2
MaxScales == 2
MaxDmStep == 2
MaxSearchInt == 1
MaxDm == 7

VARIABLES
    \* kernels (dedisperse, resample, dedisperseresample)
    data,       \* the caller's visibility cube
    delay,      \* delay table, one entry per channel
    dt,         \* resampling factor
    parallel,   \* the parallel flag of the last kernel call
    op,         \* which wrapper has been called ("none" before any call)
    result,     \* what the wrapper returned
    \* gridder (grid_visibilities)
    u,          \* u[j][k]: u coordinate of baseline j, channel k
    v,          \* v[j][k]: v coordinate of baseline j, channel k
    npixx,      \* grid size along u
    npixy,      \* grid size along v
    uvres,      \* uv cell size
    grids,      \* what grid_visibilities returned
    \* extractor (dedisperse_image_fftw, search_thresh_fftw, dedisperse_image_cuda)
    st,             \* the state object: trial grid, image size, preferences
    segment,        \* the segment searched
    pc,             \* where the extractor is ("idle" before it is called)
    dtind,          \* index of the current dt trial
    dmind,          \* index of the current dm trial
    data_corr,      \* the dedispersed and resampled cube of the current trial
    integrations,   \* the integrations selected for the current trial
    ii,             \* position of the loop over images / arm triggers
    candisnr,       \* arm triggers of the current trial
    canddatalist,   \* in-flight buffer of candidate data
    cc,             \* candidate collection local to search_thresh_fftw
    candcollection, \* candidate collection of the dedisperse_image_* call
    appended,       \* history: every candidate ever appended to canddatalist
    exc,            \* the exception that left the extractor ("none" if none did)
    vis_raw,        \* the visibilities on the device: how often they were halved
    image,          \* (max, noise) of the image thresholded last in the trial
    significance_kalman, \* <<kalman_significance>> of that image's spectrum, if called
    \* the uvw lock (util.get_uvw_segment) under concurrent search calls
    st_lock,        \* st.lock: "None" or "Lock"
    lock_holder,    \* the search call that holds st.lock, 0 when it is free
    radec,          \* st.metadata.radec
    fftmode,        \* st.prefs.fftmode of the concurrent search calls
    ntrials,        \* number of (dm, dt) trials of each search call
    mjdstr,         \* mjdstr[c]: the segment time string of search call c
    callpc,         \* callpc[c]: where search call c is
    calltrial,      \* calltrial[c]: the trial search call c is at (0-based)
    \* kalman_significance
    sig_ts,         \* the smoothness scales, thousandths of median(spec_std)
    coeffs,         \* the calibrations, as the function holds them
    fitted,         \* what kalman_prepare_coeffs fitted in this call, if called
    scores,         \* scores[sig_t]: kalman_filter_detector(spec, spec_std, sig_t)
    significances,  \* the list the loop appends to
    kalpc,          \* position in kalman_significance
    kalres,         \* its return value, thousandths
    kalexc,         \* the exception that left it, "none" if none
    \* calc_delay
    freq,           \* channel frequencies, GHz
    freqref,        \* reference frequency, GHz
    dm,             \* dispersion measure
    inttime,        \* integration time <<num, den>>, seconds
    scale,          \* the scale argument <<num, den>>, << >> for None
    cdpc,           \* "call" before calc_delay runs, "returned" after
    \* the CandData of the last candidate
    dataph          \* its snippet data[lo:hi] as <<lo, hi>>, << >> before the first

kvars == <<data, delay, dt, parallel, op, result>>

gvars == <<u, v, npixx, npixy, uvres, grids>>

svars == <<st, segment, pc, dtind, dmind, data_corr, integrations, ii, candisnr,
           canddatalist, cc, candcollection, appended, exc, vis_raw,
           image, significance_kalman>>

lvars == <<st_lock, lock_holder, radec, fftmode, ntrials, mjdstr, callpc, calltrial>>

kalvars == <<sig_ts, coeffs, fitted, scores, significances, kalpc, kalres, kalexc>>

dvars == <<freq, freqref, dm, inttime, scale, cdpc>>

cdvars == <<dataph>>

vars == <<kvars, gvars, svars, lvars, kalvars, dvars, cdvars>>

(***************************************************************************)
(* Exact arithmetic on samples.                                            *)
(***************************************************************************)
Abs(n) == IF n < 0 THEN -n ELSE n

RECURSIVE Gcd(_, _)
Gcd(a, b) == IF b = 0 THEN a ELSE Gcd(b, a % b)

Norm(n, d) == LET g == Gcd(Abs(n), d) IN <<n \div g, d \div g>>

Zero == <<0, 1>>

Val(n) == <<n, 1>>

\* the value standing for a division by zero (ZeroDivisionError in a kernel)
DivByZero == <<0, 0>>

RAdd(a, b) ==
    IF a[2] = 0 \/ b[2] = 0 THEN DivByZero
    ELSE Norm(a[1] * b[2] + b[1] * a[2], a[2] * b[2])

RDivInt(a, w) ==
    IF w = 0 \/ a[2] = 0 THEN DivByZero ELSE Norm(a[1], a[2] * w)

\* the identity; comparing a value with itself makes TLC evaluate it once
\* and keep the result
Force(x) == IF x = x THEN x ELSE x

SeqMax(s) == CHOOSE m \in {s[n] : n \in 1..Len(s)} : \A n \in 1..Len(s) : s[n] <= m

(***************************************************************************)
(* Cubes.                                                                  *)
(***************************************************************************)
Samples == {Val(-1), Val(0), Val(1)}

Shapes == {sh \in (1..MaxNint) \X (1..2) \X (1..2) \X (1..2) :
             sh[1] * sh[2] * sh[3] * sh[4] <= MaxCells}

CubesOf(sh) == [1..sh[1] -> [1..sh[2] -> [1..sh[3] -> [1..sh[4] -> Samples]]]]

Cubes == UNION {CubesOf(sh) : sh \in Shapes}

EmptyArray == << >>

zeros(nint, nbl, nchan, npol) ==
    [i \in 1..nint |-> [j \in 1..nbl |-> [k \in 1..nchan |-> [l \in 1..npol |-> Zero]]]]

npAny(d) ==
    \E i \in 1..Len(d) : \E j \in 1..Len(d[i]) : \E k \in 1..Len(d[i][j]) :
        \E l \in 1..Len(d[i][j][k]) : d[i][j][k][l] # Zero

\* Python's seq[0:stop]: a negative stop counts from the end, and the slice
\* is clipped to the sequence.
PySliceTo(s, stop) ==
    LET n == Len(s)
        e0 == IF stop < 0 THEN stop + n ELSE stop
        e == IF e0 < 0 THEN 0 ELSE IF e0 > n THEN n ELSE e0
    IN  SubSeq(s, 1, e)

\* np.swapaxes(data, 0, 1)[j]: the (nint, nchan, npol) view of baseline j.
BaselineView(d, j) == [i \in 1..Len(d) |-> d[i][j]]

\* Writes through the per-baseline views land in the cube they view.
FromBaselineViews(views, nint, nbl) ==
    LET done == Force(views)
    IN  Force([i \in 1..nint |-> [j \in 1..nbl |-> done[j][i]]])

Array(c) == [kind |-> "array", cube |-> c]

Raised == [kind |-> "error", cube |-> EmptyArray]

\* A kernel that divides by zero raises, and the wrapper raises with it.
Returned(c) ==
    LET out == Force(c)
    IN  IF \E i \in 1..Len(out) : \E j \in 1..Len(out[i]) : \E k \in 1..Len(out[i][j]) :
               \E l \in 1..Len(out[i][j][k]) : out[i][j][k][l] = DivByZero
        THEN Raised
        ELSE Array(out)

NoResult == [kind |-> "none", cube |-> EmptyArray]

\* which memory the array returned by ndarray.copy() names: its own, or (had
\* there been no copy) the memory of the array it was taken from
ndarray_nocopy == "caller"

ndarray_copy == "copy"

\* the caller's array after a callee wrote the values written through an
\* array that names the memory target
CallerCubeAfter(d, written, target) == IF target = "caller" THEN written ELSE d

(***************************************************************************)
(* dedisperse                                                              *)
(***************************************************************************)
\* _dedisperse_jit shifting every channel by the largest delay
dedisperse_jit_onedelay(d, del, res) ==
    [i \in 1..Len(res) |-> [j \in 1..Len(d[1]) |-> [k \in 1..Len(d[1][1]) |->
        [l \in 1..Len(d[1][1][1]) |-> d[(i - 1) + SeqMax(del) + 1][j][k][l]]]]]

\* _dedisperse_jit: fills a fresh result, one cell per (k, i, l, j).
dedisperse_jit(d, del, res) ==
    [i \in 1..Len(res) |-> [j \in 1..Len(d[1]) |-> [k \in 1..Len(d[1][1]) |->
        [l \in 1..Len(d[1][1][1]) |-> d[(i - 1) + del[k] + 1][j][k][l]]]]]

\* _dedisperse_gu on one baseline view of shape (nint, nchan, npol), in
\* place: n counts the iterations of the loop nest i, j, k done so far.
RECURSIVE dedisperse_gu_loop(_, _, _, _)
dedisperse_gu_loop(view, del, n, total) ==
    IF n >= total THEN view
    ELSE LET nchan == Len(view[1])
             npol == Len(view[1][1])
             i == n \div (nchan * npol)
             j == (n \div npol) % nchan
             k == n % npol
             iprime == i + del[j + 1]
         IN  dedisperse_gu_loop([view EXCEPT ![i + 1][j + 1][k + 1] = view[iprime + 1][j + 1][k + 1]],
                                del, n + 1, total)

dedisperse_gu(view, del) ==
    IF SeqMax(del) > 0
    THEN dedisperse_gu_loop(view, del, 0,
                            (Len(view) - SeqMax(del)) * Len(view[1]) * Len(view[1][1]))
    ELSE view

dedisperse(d, del, par) ==
    IF ~npAny(d) THEN Array(EmptyArray)
    ELSE LET nint == Len(d)
             nbl == Len(d[1])
             nchan == Len(d[1][1])
             npol == Len(d[1][1][1])
             dmax == SeqMax(del)
         IN  IF par
             THEN LET copy == FromBaselineViews(
                                [j \in 1..nbl |-> dedisperse_gu(BaselineView(d, j), del)],
                                nint, nbl)
                  IN  Returned(PySliceTo(copy, nint - dmax))
             ELSE IF nint - dmax < 0 THEN Raised
                  ELSE Returned(dedisperse_jit(d, del, zeros(nint - dmax, nbl, nchan, npol)))

(***************************************************************************)
(* resample                                                                *)
(***************************************************************************)
\* the accumulation of _resample_jit for one cell: result = data[iprime],
\* then += data[iprime + r] for r in 1..dt-1.
RECURSIVE resample_acc(_, _, _, _, _, _, _, _)
resample_acc(d, iprime, j, k, l, r, rdt, acc) ==
    IF r >= rdt THEN acc
    ELSE resample_acc(d, iprime, j, k, l, r + 1, rdt,
                      RAdd(acc, d[iprime + r + 1][j][k][l]))

\* _resample_jit without the final division by dt
resample_jit_nodivide(d, rdt, res) ==
    [i \in 1..Len(res) |-> [j \in 1..Len(d[1]) |-> [k \in 1..Len(d[1][1]) |->
        [l \in 1..Len(d[1][1][1]) |->
            LET iprime == (i - 1) * rdt
            IN  resample_acc(d, iprime, j, k, l, 1, rdt, d[iprime + 1][j][k][l])]]]]

resample_jit(d, rdt, res) ==
    [i \in 1..Len(res) |-> [j \in 1..Len(d[1]) |-> [k \in 1..Len(d[1][1]) |->
        [l \in 1..Len(d[1][1][1]) |->
            LET iprime == (i - 1) * rdt
            IN  RDivInt(resample_acc(d, iprime, j, k, l, 1, rdt, d[iprime + 1][j][k][l]),
                        rdt)]]]]

\* _resample_gu on one time series s (the nint axis of one baseline, channel
\* and polarization), in place.
RECURSIVE resample_gu_acc(_, _, _, _, _)
resample_gu_acc(s, i, iprime, r, rdt) ==
    IF r >= rdt THEN s
    ELSE resample_gu_acc([s EXCEPT ![i + 1] = RAdd(s[i + 1], s[iprime + r + 1])],
                         i, iprime, r + 1, rdt)

RECURSIVE resample_gu_loop(_, _, _)
resample_gu_loop(s, i, rdt) ==
    IF i >= Len(s) \div rdt THEN s
    ELSE LET iprime == i * rdt
             s1 == [s EXCEPT ![i + 1] = s[iprime + 1]]
             s2 == resample_gu_acc(s1, i, iprime, 1, rdt)
         IN  resample_gu_loop([s2 EXCEPT ![i + 1] = RDivInt(s2[i + 1], rdt)], i + 1, rdt)

resample_gu(s, rdt) == IF rdt > 1 THEN resample_gu_loop(s, 0, rdt) ELSE s

resample(d, rdt, par) ==
    IF ~npAny(d) THEN Array(EmptyArray)
    ELSE LET len0 == Len(d)
             nbl == Len(d[1])
             nchan == Len(d[1][1])
             npol == Len(d[1][1][1])
         IN  IF par
             THEN LET series == Force([j \in 1..nbl |-> [k \in 1..nchan |-> [l \in 1..npol |->
                                    resample_gu([i \in 1..len0 |-> d[i][j][k][l]], rdt)]]])
                      copy == [i \in 1..len0 |-> [j \in 1..nbl |-> [k \in 1..nchan |->
                                    [l \in 1..npol |-> series[j][k][l][i]]]]]
                  IN  Returned(PySliceTo(copy, len0 \div rdt))
             ELSE Returned(resample_jit(d, rdt, zeros(len0 \div rdt, nbl, nchan, npol)))

(***************************************************************************)
(* dedisperseresample (fused kernel)                                       *)
(***************************************************************************)
\* the r loop of _dedisperseresample_jit counting the zero samples, not the
\* non-zero ones, toward the weight
RECURSIVE dedisperseresample_acc_countzeros(_, _, _, _, _, _, _, _, _)
dedisperseresample_acc_countzeros(d, del, rdt, i, j, k, l, r, acc) ==
    IF r >= rdt THEN acc
    ELSE LET iprime == i * rdt + del[k] + r
             val == d[iprime + 1][j][k][l]
         IN  dedisperseresample_acc_countzeros(d, del, rdt, i, j, k, l, r + 1,
                 <<RAdd(acc[1], val), IF val = Zero THEN acc[2] + 1 ELSE acc[2]>>)

\* the r loop of _dedisperseresample_jit for one output cell: acc is
\* <<result[i, j, k, l], weight>>, starting from <<0, 0>>.
RECURSIVE dedisperseresample_acc(_, _, _, _, _, _, _, _, _)
dedisperseresample_acc(d, del, rdt, i, j, k, l, r, acc) ==
    IF r >= rdt THEN acc
    ELSE LET iprime == i * rdt + del[k] + r
             val == d[iprime + 1][j][k][l]
         IN  dedisperseresample_acc(d, del, rdt, i, j, k, l, r + 1,
                 <<RAdd(acc[1], val), IF val # Zero THEN acc[2] + 1 ELSE acc[2]>>)

\* _dedisperseresample_jit dividing by dt, as resample does
dedisperseresample_jit_divdt(d, del, rdt, res) ==
    [i \in 1..Len(res) |-> [j \in 1..Len(d[1]) |-> [k \in 1..Len(d[1][1]) |->
        [l \in 1..Len(d[1][1][1]) |->
            LET acc == dedisperseresample_acc(d, del, rdt, i - 1, j, k, l, 0,
                                              <<res[i][j][k][l], 0>>)
            IN  RDivInt(acc[1], rdt)]]]]

\* _dedisperseresample_jit dividing by the weight without testing it
dedisperseresample_jit_noguard(d, del, rdt, res) ==
    [i \in 1..Len(res) |-> [j \in 1..Len(d[1]) |-> [k \in 1..Len(d[1][1]) |->
        [l \in 1..Len(d[1][1][1]) |->
            LET acc == dedisperseresample_acc(d, del, rdt, i - 1, j, k, l, 0,
                                              <<res[i][j][k][l], 0>>)
            IN  RDivInt(acc[1], acc[2])]]]]

dedisperseresample_jit(d, del, rdt, res) ==
    [i \in 1..Len(res) |-> [j \in 1..Len(d[1]) |-> [k \in 1..Len(d[1][1]) |->
        [l \in 1..Len(d[1][1][1]) |->
            LET acc == dedisperseresample_acc(d, del, rdt, i - 1, j, k, l, 0,
                                              <<res[i][j][k][l], 0>>)
            IN  IF acc[2] > 0 THEN RDivInt(acc[1], acc[2]) ELSE Val(acc[2])]]]]

\* the r loop of _dedisperseresample_gu adding onto the cell at r = 0
\* instead of overwriting it
RECURSIVE dedisperseresample_gu_acc_noreset(_, _, _, _, _, _, _)
dedisperseresample_gu_acc_noreset(acc, del, rdt, i, k, l, r) ==
    IF r >= rdt THEN acc
    ELSE LET view == acc[1]
             iprime == i * rdt + del[k + 1] + r
             val == view[iprime + 1][k + 1][l + 1]
             view1 == [view EXCEPT ![i + 1][k + 1][l + 1] =
                           RAdd(view[i + 1][k + 1][l + 1], val)]
         IN  dedisperseresample_gu_acc_noreset(
                 <<view1, IF val # Zero THEN acc[2] + 1 ELSE acc[2]>>,
                 del, rdt, i, k, l, r + 1)

\* the r loop of _dedisperseresample_gu for the cell (i, k, l) of one
\* baseline view, in place: acc is <<view, weight>>.
RECURSIVE dedisperseresample_gu_acc(_, _, _, _, _, _, _)
dedisperseresample_gu_acc(acc, del, rdt, i, k, l, r) ==
    IF r >= rdt THEN acc
    ELSE LET view == acc[1]
             iprime == i * rdt + del[k + 1] + r
             val == view[iprime + 1][k + 1][l + 1]
             view1 == IF r = 0
                   THEN [view EXCEPT ![i + 1][k + 1][l + 1] = val]
                   ELSE [view EXCEPT ![i + 1][k + 1][l + 1] = RAdd(view[i + 1][k + 1][l + 1], val)]
         IN  dedisperseresample_gu_acc(<<view1, IF val # Zero THEN acc[2] + 1 ELSE acc[2]>>,
                                       del, rdt, i, k, l, r + 1)

\* the loop nest l, k, i of _dedisperseresample_gu: n counts the iterations
\* done so far, nout is the number of output integrations.
RECURSIVE dedisperseresample_gu_loop(_, _, _, _, _)
dedisperseresample_gu_loop(view, del, rdt, nout, n) ==
    LET nchan == Len(view[1])
        npol == Len(view[1][1])
    IN  IF n >= npol * nchan * nout THEN view
        ELSE LET l == n \div (nchan * nout)
                 k == (n \div nout) % nchan
                 i == n % nout
                 acc == dedisperseresample_gu_acc(<<view, 0>>, del, rdt, i, k, l, 0)
                 done == acc[1]
                 weight == acc[2]
                 cell == IF weight > 0
                         THEN RDivInt(done[i + 1][k + 1][l + 1], weight)
                         ELSE Val(weight)
             IN  dedisperseresample_gu_loop([done EXCEPT ![i + 1][k + 1][l + 1] = cell],
                                            del, rdt, nout, n + 1)

dedisperseresample_gu(view, del, rdt) ==
    IF SeqMax(del) > 0 \/ rdt > 1
    THEN dedisperseresample_gu_loop(view, del, rdt, (Len(view) - SeqMax(del)) \div rdt, 0)
    ELSE view

\* dedisperseresample without the all-zero short cut
dedisperseresample_nozerocheck(d, del, rdt, par) ==
    LET nint == Len(d)
        nbl == Len(d[1])
        nchan == Len(d[1][1])
        npol == Len(d[1][1][1])
        dmax == SeqMax(del)
    IN  IF par
        THEN LET copy == FromBaselineViews(
                           [j \in 1..nbl |->
                               dedisperseresample_gu(BaselineView(d, j), del, rdt)],
                           nint, nbl)
             IN  Returned(PySliceTo(copy, (nint - dmax) \div rdt))
        ELSE IF (nint - dmax) \div rdt < 0 THEN Raised
             ELSE Returned(dedisperseresample_jit(d, del, rdt,
                            zeros((nint - dmax) \div rdt, nbl, nchan, npol)))

dedisperseresample(d, del, rdt, par) ==
    IF ~npAny(d) THEN Array(EmptyArray)
    ELSE LET nint == Len(d)
             nbl == Len(d[1])
             nchan == Len(d[1][1])
             npol == Len(d[1][1][1])
             dmax == SeqMax(del)
         IN  IF par
             THEN LET copy == FromBaselineViews(
                                [j \in 1..nbl |->
                                    dedisperseresample_gu(BaselineView(d, j), del, rdt)],
                                nint, nbl)
                  IN  Returned(PySliceTo(copy, (nint - dmax) \div rdt))
             ELSE IF (nint - dmax) \div rdt < 0 THEN Raised
                  ELSE Returned(dedisperseresample_jit(d, del, rdt,
                                 zeros((nint - dmax) \div rdt, nbl, nchan, npol)))

(***************************************************************************)
(* The caller's cube after a wrapper has returned.  The sequential kernels *)
(* write only the fresh result; the parallel kernels write in place into   *)
(* data.copy().                                                            *)
(***************************************************************************)
dedisperse_data(d, del, par) ==
    IF ~npAny(d) \/ ~par THEN d
    ELSE CallerCubeAfter(d,
             FromBaselineViews([j \in 1..Len(d[1]) |->
                                   dedisperse_gu(BaselineView(d, j), del)],
                               Len(d), Len(d[1])),
             ndarray_copy)

resample_data(d, rdt, par) ==
    IF ~npAny(d) \/ ~par THEN d
    ELSE CallerCubeAfter(d,
             LET series == Force([j \in 1..Len(d[1]) |-> [k \in 1..Len(d[1][1]) |->
                               [l \in 1..Len(d[1][1][1]) |->
                                   resample_gu([i \in 1..Len(d) |-> d[i][j][k][l]], rdt)]]])
             IN  [i \in 1..Len(d) |-> [j \in 1..Len(d[1]) |-> [k \in 1..Len(d[1][1]) |->
                     [l \in 1..Len(d[1][1][1]) |-> series[j][k][l][i]]]]],
             ndarray_copy)

dedisperseresample_data(d, del, rdt, par) ==
    IF ~npAny(d) \/ ~par THEN d
    ELSE CallerCubeAfter(d,
             FromBaselineViews([j \in 1..Len(d[1]) |->
                                   dedisperseresample_gu(BaselineView(d, j), del, rdt)],
                               Len(d), Len(d[1])),
             ndarray_copy)

(***************************************************************************)
(* grid_visibilities                                                       *)
(***************************************************************************)
\* int64(x/y) for y > 0: truncation toward zero
TruncDiv(x, y) == IF x >= 0 THEN x \div y ELSE -((-x) \div y)

\* np.round(x/y, 0) for y > 0: round to nearest, halves to the even integer
RoundDiv(x, y) ==
    LET q == x \div y
        rem == x % y
    IN  IF 2 * rem < y THEN q
        ELSE IF 2 * rem > y THEN q + 1
        ELSE IF q % 2 = 0 THEN q ELSE q + 1

\* np.zeros(shape=(nint, npixx, npixy))
zerogrids(nint, nx, ny) == [i \in 1..nint |-> [x \in 1..nx |-> [y \in 1..ny |-> Zero]]]

\* the loop over polarizations: g += data[i, j, k, l] for l in range(npol)
RECURSIVE addpols(_, _, _)
addpols(g, cell, l) ==
    IF l > Len(cell) THEN g ELSE addpols(RAdd(g, cell[l]), cell, l + 1)

\* _grid_visibilities_jit: n counts the (j, k) pairs done so far
RECURSIVE grid_visibilities_jit(_, _, _, _, _, _, _, _)
grid_visibilities_jit(d, us, vs, nx, ny, res, g, n) ==
    LET nbl == Len(d[1])
        nchan == Len(d[1][1])
    IN  IF n >= nbl * nchan THEN g
        ELSE LET j == n \div nchan
                 k == n % nchan
                 ubl == TruncDiv(us[j + 1][k + 1], res)
                 vbl == TruncDiv(vs[j + 1][k + 1], res)
                 g1 == IF ubl < nx \div 2 /\ vbl < ny \div 2
                       THEN LET umod == ubl % nx
                                vmod == vbl % ny
                            IN  [i \in 1..Len(d) |->
                                    [g[i] EXCEPT ![umod + 1][vmod + 1] =
                                        addpols(@, d[i][j + 1][k + 1], 1)]]
                       ELSE g
             IN  grid_visibilities_jit(d, us, vs, nx, ny, res, g1, n + 1)

\* _grid_visibilities_gu on one integration (data of shape (nbl, nchan,
\* npol), grid of shape (npixx, npixy)): n counts the (j, k) pairs done
RECURSIVE grid_visibilities_gu(_, _, _, _, _, _, _, _)
grid_visibilities_gu(d, us, vs, nx, ny, res, g, n) ==
    LET nbl == Len(d)
        nchan == Len(d[1])
    IN  IF n >= nbl * nchan THEN g
        ELSE LET j == n \div nchan
                 k == n % nchan
                 ubl == RoundDiv(us[j + 1][k + 1], res)
                 vbl == RoundDiv(vs[j + 1][k + 1], res)
                 g1 == IF Abs(ubl) < nx \div 2 /\ Abs(vbl) < ny \div 2
                       THEN [g EXCEPT ![(ubl % nx) + 1][(vbl % ny) + 1] =
                                addpols(@, d[j + 1][k + 1], 1)]
                       ELSE g
             IN  grid_visibilities_gu(d, us, vs, nx, ny, res, g1, n + 1)

grid_visibilities(d, us, vs, nx, ny, res, par) ==
    LET g == zerogrids(Len(d), nx, ny)
    IN  IF par
        THEN [i \in 1..Len(d) |-> grid_visibilities_gu(d[i], us, vs, nx, ny, res, g[i], 0)]
        ELSE grid_visibilities_jit(d, us, vs, nx, ny, res, g, 0)

NoState == [dtarr |-> << >>]

\* no image has been formed in the trial; kalman_significance was not called
NoImage == << >>

NoKalman == << >>

\* no array has been allocated on the device
NoDevice == [uploaded |-> FALSE, halved |-> 0]

IdleGrid ==
    /\ u = << >> /\ v = << >> /\ npixx = 0 /\ npixy = 0 /\ uvres = 0 /\ grids = << >>

\* no candidate has been emitted
NoSnippet == << >>

IdleSnippet == dataph = NoSnippet

IdleDelay ==
    /\ freq = << >> /\ freqref = 1 /\ dm = 0 /\ inttime = <<1, 1>> /\ scale = << >>
    /\ cdpc = "idle"

IdleKalman ==
    /\ sig_ts = << >> /\ coeffs = << >> /\ fitted = << >> /\ scores = << >>
    /\ significances = << >> /\ kalpc = "idle" /\ kalres = 0 /\ kalexc = "none"

IdleLock ==
    /\ st_lock = "None" /\ lock_holder = 0 /\ radec = << >> /\ fftmode = "none"
    /\ ntrials = 0 /\ mjdstr = << >> /\ callpc = << >> /\ calltrial = << >>

IdleSearch ==
    /\ st = NoState /\ segment = 0 /\ pc = "idle" /\ dtind = 0 /\ dmind = 0
    /\ data_corr = NoResult /\ integrations = << >> /\ ii = 0 /\ candisnr = << >>
    /\ canddatalist = << >> /\ cc = << >> /\ candcollection = << >>
    /\ appended = << >> /\ exc = "none" /\ vis_raw = NoDevice
    /\ image = NoImage /\ significance_kalman = NoKalman

Init ==
    /\ data \in Cubes
    /\ delay \in [1..Len(data[1][1]) -> 0..MaxDelay]
    /\ dt \in 1..MaxDt
    /\ parallel = FALSE
    /\ op = "none"
    /\ result = NoResult
    /\ IdleGrid
    /\ IdleSearch
    /\ IdleLock
    /\ IdleKalman
    /\ IdleDelay
    /\ IdleSnippet

Dedisperse ==
    /\ op = "none" /\ pc = "idle"
    /\ \E par \in BOOLEAN :
        /\ parallel' = par
        /\ result' = dedisperse(data, delay, par)
        /\ data' = dedisperse_data(data, delay, par)
    /\ op' = "dedisperse"
    /\ UNCHANGED <<delay, dt, gvars, svars, lvars, kalvars, cdvars, dvars>>

Resample ==
    /\ op = "none" /\ pc = "idle"
    /\ \E par \in BOOLEAN :
        /\ parallel' = par
        /\ result' = resample(data, dt, par)
        /\ data' = resample_data(data, dt, par)
    /\ op' = "resample"
    /\ UNCHANGED <<delay, dt, gvars, svars, lvars, kalvars, cdvars, dvars>>

DedisperseResample ==
    /\ op = "none" /\ pc = "idle"
    /\ \E par \in BOOLEAN :
        /\ parallel' = par
        /\ result' = dedisperseresample(data, delay, dt, par)
        /\ data' = dedisperseresample_data(data, delay, dt, par)
    /\ op' = "dedisperseresample"
    /\ UNCHANGED <<delay, dt, gvars, svars, lvars, kalvars, cdvars, dvars>>

Next == Dedisperse \/ Resample \/ DedisperseResample

Spec == Init /\ [][Next]_vars

(***************************************************************************)
(* The gridder called on a few visibilities.                               *)
(***************************************************************************)
GridShapes == {sh \in (1..2) \X (1..2) \X (1..2) \X (1..2) :
                 sh[1] * sh[2] * sh[3] * sh[4] <= MaxGridCells}

GridCubes == UNION {[1..sh[1] -> [1..sh[2] -> [1..sh[3] -> [1..sh[4] ->
                        {Val(1), Val(-1)}]]]] : sh \in GridShapes}

InitGrid ==
    /\ data \in GridCubes
    /\ u \in [1..Len(data[1]) -> [1..Len(data[1][1]) -> (-MaxU)..MaxU]]
    /\ v \in [1..Len(data[1]) -> [1..Len(data[1][1]) -> (-MaxV)..MaxV]]
    /\ npixx \in {2, 4}
    /\ npixy = 2
    /\ uvres \in {1, 2}
    /\ grids = << >>
    /\ delay = << >> /\ dt = 1 /\ parallel = FALSE /\ op = "none" /\ result = NoResult
    /\ IdleSearch
    /\ IdleLock
    /\ IdleKalman
    /\ IdleDelay
    /\ IdleSnippet

GridVisibilities ==
    /\ op = "none" /\ pc = "idle"
    /\ \E par \in BOOLEAN :
        /\ parallel' = par
        /\ grids' = grid_visibilities(data, u, v, npixx, npixy, uvres, par)
    /\ op' = "grid_visibilities"
    /\ UNCHANGED <<data, delay, dt, result, u, v, npixx, npixy, uvres, svars, lvars, kalvars, cdvars, dvars>>

NextGrid == GridVisibilities

SpecGrid == InitGrid /\ [][NextGrid]_vars

(***************************************************************************)
(* The extractor: dedisperse_image_fftw / search_thresh_fftw and           *)
(* dedisperse_image_cuda walking the DM x dt trial grid.                   *)
(*                                                                         *)
(* Abstractions: an image is represented by its peak and its noise         *)
(* estimate, drawn from ImageStats when the image is formed; the outcome   *)
(* of the Kalman second stage is drawn when it is evaluated; frequencies   *)
(* are whole GHz, DMs whole numbers, inttime a fraction <<num, den>> of a  *)
(* second, and prefs.memory_limit is held in bytes (GB * 1000^3).          *)
(***************************************************************************)
\* calc_delay: int(scale * dm * (1/freq[i]^2 - 1/freqref^2) / inttime) with
\* the default scale 4.1488e-3 = 2593/625000; int() truncates toward zero.
calc_delay(fs, fref, d, itime) ==
    [n \in 1..Len(fs) |->
        LET num == 2593 * d * (fref * fref - fs[n] * fs[n]) * itime[2]
            den == 625000 * fs[n] * fs[n] * fref * fref * itime[1]
        IN  TruncDiv(num, den)]

beamnum == 0

\* bytespercd = 8*(npixx*npixy + timewindow*nchan*npol)
bytespercd(s) == 8 * (s.npixx * s.npixy + s.prefs.timewindow * s.nchan * s.npol)

\* candidates.calc_features: one candidate of the collection per CandData,
\* in the order of the list
calc_features_lastonly(cdl) == IF Len(cdl) > 1 THEN <<cdl[Len(cdl)]>> ELSE cdl

calc_features(cdl) == cdl

\* CandCollection.__add__: the candidates of both, in order
AddCollections(a, b) == a \o b

\* st.get_search_ints(segment, dmind, dtind): a list of consecutive
\* integrations of the corrected data, nlen long
get_search_ints(nlen) ==
    LET top == IF nlen - 1 < MaxSearchInt THEN nlen - 1 ELSE MaxSearchInt
    IN  {<< >>} \cup {<<a>> : a \in 0..top}
                \cup {<<a, a + 1>> : a \in 0..(top - 1)}

\* (peak, noise) of an image
ImageStats == {<<0, 0>>, <<1, 1>>, <<2, 1>>, <<2, 0>>}

\* the images grid_image can give for the visibilities vis of one
\* integration: gridding sums the visibilities into cells and the inverse
\* transform of a zero grid is zero, so zero visibilities give the zero image
ImagesOf(vis) == IF npAny(<<vis>>) THEN ImageStats ELSE {<<0, 0>>}

\* a / b in floating point: a number <<a, b>>, inf or nan when b = 0
FloatDiv(a, b) ==
    IF b # 0 THEN [kind |-> "num", num |-> a, den |-> b]
    ELSE IF a = 0 THEN [kind |-> "nan", num |-> 0, den |-> 1]
    ELSE [kind |-> "inf", num |-> a, den |-> 1]

\* x >= y for a float x and a whole number y
FloatGe(x, y) ==
    CASE x.kind = "nan" -> FALSE
      [] x.kind = "inf" -> x.num > 0
      [] OTHER -> x.num >= y * x.den

\* x > y for a float x and a whole number y (b > 0 in <<a, b>>)
FloatGt(x, y) ==
    CASE x.kind = "nan" -> FALSE
      [] x.kind = "inf" -> x.num > 0
      [] OTHER -> x.num > y * x.den

\* values of kalman_significance for a spectrum, in hundredths
KalmanSignificances == {0, 1000}

\* -scipy.stats.norm.logsf(peak_snr) in hundredths, for the values of
\* peak_snr that pass the first threshold: -log(sf(2)) = 3.78, -log(sf(inf))
\* = inf, and nan for nan
significance_image(peak_snr) ==
    CASE peak_snr.kind = "nan" -> [kind |-> "nan", num |-> 0, den |-> 1]
      [] peak_snr.kind = "inf" -> [kind |-> "inf", num |-> 1, den |-> 1]
      [] peak_snr.num >= 2 * peak_snr.den -> [kind |-> "num", num |-> 378, den |-> 1]
      [] OTHER -> [kind |-> "num", num |-> 0, den |-> 1]

\* total_snr = np.sqrt(2*(significance_kalman + significance_image)) and
\* total_snr > st.prefs.sigma_kalman, compared as squares in hundredths; the
\* square root of a negative number is nan, which exceeds nothing
second_stage_imageonly(sigk, peak_snr) ==
    FloatGt(significance_image(peak_snr), 0)

second_stage(sigk, peak_snr) ==
    LET sigi == significance_image(peak_snr)
    IN  CASE sigi.kind = "nan" -> FALSE
          [] sigi.kind = "inf" -> TRUE
          [] OTHER -> /\ sigk + sigi.num >= 0
                      /\ 2 * (sigk + sigi.num) >
                             100 * st.prefs.sigma_kalman * st.prefs.sigma_kalman

\* the phasors frot = exp(-2j*pi*(dl*u + dm*v)) of a phase shift: 1 at the
\* phase centre, -1 half a turn away
Phasors == {1, -1}

\* _phaseshift_jit over all integrations of d: every sample times frot
phaseshift_jit(d, frot) ==
    [i \in 1..Len(d) |-> [j \in 1..Len(d[i]) |-> [k \in 1..Len(d[i][j]) |->
        [l \in 1..Len(d[i][j][k]) |->
            <<d[i][j][k][l][1] * frot, d[i][j][k][l][2]>>]]]]

\* the bounds of data[max(0, i - timewindow//2):min(i + timewindow//2, n)]
SnippetLo(i, timewindow) ==
    IF i - timewindow \div 2 > 0 THEN i - timewindow \div 2 ELSE 0

SnippetHi(i, timewindow, n) ==
    IF i + timewindow \div 2 < n THEN i + timewindow \div 2 ELSE n

\* a slice [lo:hi] of an array of n integrations: bounds past the end are
\* cut to n, and a slice that ends before it starts is empty
SliceBounds(lo, hi, n) ==
    LET l == IF lo < n THEN lo ELSE n
        h == IF hi < n THEN hi ELSE n
    IN  <<l, IF h < l THEN l ELSE h>>

\* the snippet around integration i of a corrected cube of n integrations,
\* where the code takes upto for the length in the upper bound
Snippet(i, upto, n) ==
    SliceBounds(SnippetLo(i, st.prefs.timewindow),
                SnippetHi(i, st.prefs.timewindow, upto), n)

\* the cube d after the slice d[lo:hi] has been phase shifted in place
SnippetWritten(d, lo, hi, frot) ==
    LET shifted == phaseshift_jit(d, frot)
    IN  [i \in 1..Len(d) |-> IF lo < i /\ i <= hi THEN shifted[i] ELSE d[i]]

\* the corrected cube after the snippet around integration i has been taken
\* with data[lo:hi].copy() and phase shifted
SnippetShifted(corr, i, frot) ==
    [corr EXCEPT !.cube =
        CallerCubeAfter(@, SnippetWritten(@, SnippetLo(i, st.prefs.timewindow),
                                          SnippetHi(i, st.prefs.timewindow, Len(@)),
                                          frot),
                        ndarray_copy)]

\* the (dtind, dmind) after the current one in "for dtind: for dmind:"
NextTrial ==
    IF dmind + 1 < Len(st.dmarr) THEN <<dtind, dmind + 1>> ELSE <<dtind + 1, 0>>

\* len(canddatalist)*bytespercd/1000**3 > st.prefs.memory_limit
OverLimit(cdl) == Len(cdl) * bytespercd(st) > st.prefs.memory_limit

SetLocals(p, trial, ints, idx, arms, cdl, inner, outer, app) ==
    /\ pc' = p
    /\ dtind' = trial[1]
    /\ dmind' = trial[2]
    /\ integrations' = ints
    /\ ii' = idx
    /\ candisnr' = arms
    /\ canddatalist' = cdl
    /\ cc' = inner
    /\ candcollection' = outer
    /\ appended' = app

\* the locals of a step that raises nothing
SetSearch(p, trial, ints, idx, arms, cdl, inner, outer, app) ==
    /\ SetLocals(p, trial, ints, idx, arms, cdl, inner, outer, app)
    /\ exc' = exc
    /\ vis_raw' = vis_raw
    /\ image' = NoImage
    /\ significance_kalman' = NoKalman

\* the locals after the image img has been thresholded, with the Kalman
\* significance sigk if the second stage ran
SetImage(img, sigk, p, idx, cdl, inner, outer, app) ==
    /\ SetLocals(p, <<dtind, dmind>>, integrations, idx, candisnr, cdl, inner, outer,
                 app)
    /\ exc' = exc
    /\ vis_raw' = vis_raw
    /\ image' = img
    /\ significance_kalman' = sigk

\* the exception kind leaves the extractor; nothing is returned
Raise(kind) ==
    /\ SetLocals("raised", <<dtind, dmind>>, integrations, ii, candisnr, canddatalist,
                 cc, candcollection, appended)
    /\ exc' = kind
    /\ vis_raw' = vis_raw
    /\ UNCHANGED <<image, significance_kalman>>

\* search_thresh_fftw returns the collection inner to dedisperse_image_fftw,
\* which adds it to its own and goes to the next trial
ReturnToGrid(inner) ==
    SetSearch("grid", NextTrial, << >>, 0, << >>, << >>, << >>,
              AddCollections(candcollection, inner), appended)

\* a cube that is zero but for a transient of DM 0 in the integrations
\* at .. at + width - 1 (counted from 1)
PulseCube(nint, at, width) ==
    LET on(i) == at <= i /\ i < at + width
    IN  [i \in 1..nint |-> << <<(IF on(i) THEN <<Val(1)>> ELSE <<Zero>>),
                                (IF on(i) THEN <<Val(1)>> ELSE <<Zero>>)>> >>]

SearchCubes ==
    {PulseCube(n, at, 1) : n \in {1, SearchNint}, at \in {0, 1, SearchNint}}
        \cup {PulseCube(SearchNint, 2, 2)}

\* the trial grids: (st.dtarr, st.dmarr), from a single trial to the full
\* two by two grid, with dt ladders that do not start at 1 or do not double
TrialGrids ==
    {<<<<1>>, <<0>>>>, <<<<1>>, <<0, 4>>>>, <<<<1>>, <<MaxDm>>>>,
     <<<<1, 2>>, <<0>>>>, <<<<1, 2>>, <<0, 4>>>>,
     <<<<2>>, <<0>>>>, <<<<2>>, <<MaxDm>>>>, <<<<1, 3>>, <<0>>>>}

States ==
    {s \in [dtarr : {<<1>>, <<1, 2>>, <<2>>, <<1, 3>>},
            dmarr : {<<0>>, <<0, 4>>, <<MaxDm>>},
            freq : {<<1, 2>>},
            inttime : {<<1, 100>>},
            npixx : {2}, npixy : {2}, nchan : {2}, npol : {1},
            sigma_image1 : {1},
            prefs : [fftmode : {"fftw", "cuda", "other"},
                     searchtype : {"image1", "image1k", "imagearm", "imagearmk", "other"},
                     nthread : {1, 2},
                     timewindow : {1, 2, 3},
                     sigma_kalman : {4},
                     memory_limit : {100, 100000}]] :
        /\ <<s.dtarr, s.dmarr>> \in TrialGrids
        \* dedisperse_image_cuda never reads searchtype, and prep_and_search
        \* with another fftmode reads neither searchtype nor nthread
        /\ s.prefs.fftmode = "cuda" => s.prefs.searchtype \in {"image1", "image1k"}
        /\ s.prefs.fftmode = "other" =>
               s.prefs.searchtype = "image1" /\ s.prefs.nthread = 1
        \* timewindow is read for the snippet of a candidate and for
        \* bytespercd only: the short and the odd window go with one trial
        \* of the image search
        /\ s.prefs.timewindow # 2 =>
               /\ s.prefs.fftmode \in {"fftw", "cuda"}
               /\ s.prefs.searchtype = "image1" /\ s.prefs.nthread = 1
               /\ s.prefs.memory_limit = 100000
               /\ s.dtarr = <<1>> /\ s.dmarr = <<0>>}

InitSearch ==
    /\ data \in SearchCubes
    /\ st \in States
    /\ segment = 0
    /\ pc = "idle" /\ dtind = 0 /\ dmind = 0
    /\ data_corr = NoResult /\ integrations = << >> /\ ii = 0 /\ candisnr = << >>
    /\ canddatalist = << >> /\ cc = << >> /\ candcollection = << >>
    /\ appended = << >> /\ exc = "none" /\ vis_raw = NoDevice
    /\ image = NoImage /\ significance_kalman = NoKalman
    /\ delay = <<1, 0>> /\ dt = 2 /\ parallel = FALSE /\ op = "none" /\ result = NoResult
    /\ IdleGrid
    /\ IdleLock
    /\ IdleKalman
    /\ IdleDelay
    /\ IdleSnippet

\* dedisperse_image_fftw is called
CallFftw ==
    /\ pc = "idle" /\ op = "none"
    /\ st.prefs.fftmode = "fftw"
    /\ SetSearch("grid", <<0, 0>>, << >>, 0, << >>, << >>, << >>, << >>, appended)
    /\ UNCHANGED <<kvars, gvars, lvars, kalvars, cdvars, dvars, st, segment, data_corr>>

\* one trial of dedisperse_image_fftw: the delay table, the corrected cube
\* and the call of search_thresh_fftw up to the point where it returns,
\* raises or starts to walk its images or arm triggers
FftwTrial ==
    /\ pc = "grid" /\ st.prefs.fftmode = "fftw"
    /\ dtind < Len(st.dtarr)
    /\ LET del == calc_delay(st.freq, SeqMax(st.freq), st.dmarr[dmind + 1], st.inttime)
           corr == dedisperseresample(data, del, st.dtarr[dtind + 1], st.prefs.nthread > 1)
           kalman == st.prefs.searchtype \in {"image1k", "imagearmk"}
       IN  /\ delay' = del
           /\ data_corr' = corr
           /\ IF corr.kind = "error" THEN Raise("ValueError")
              ELSE IF ~npAny(corr.cube) THEN ReturnToGrid(<< >>)
              ELSE \E ints \in get_search_ints(Len(corr.cube)) :
                     IF ints = << >> THEN ReturnToGrid(<< >>)
                     \* np.random.choice(len(data), max(10, len(data)//10),
                     \* replace=False) needs that many integrations
                     ELSE IF kalman /\ Len(corr.cube) < 10 THEN Raise("ValueError")
                     ELSE IF st.prefs.searchtype \in {"image1", "image1k"}
                     THEN SetSearch("images", <<dtind, dmind>>, ints, 0, << >>, << >>,
                                    << >>, candcollection, appended)
                     ELSE IF st.prefs.searchtype \in {"imagearm", "imagearmk"}
                     THEN \* search_thresh_arms with the placeholder map: it
                          \* raises or returns its list of (i, snrarm)
                          \/ Raise("TypingError")
                          \/ \E arms \in {<< >>} \cup {<<a>> : a \in 0..(Len(ints) - 1)}
                                           \cup {<<a, a + 1>> : a \in 0..(Len(ints) - 2)} :
                                SetSearch("arms", <<dtind, dmind>>, ints, 0, arms, << >>,
                                          << >>, candcollection, appended)
                     \* raise NotImplemented(...): NotImplemented is not
                     \* callable
                     ELSE Raise("TypeError")
           /\ data' = dedisperseresample_data(data, del, st.dtarr[dtind + 1],
                                              st.prefs.nthread > 1)
    /\ UNCHANGED <<dt, parallel, op, result, gvars, lvars, kalvars, cdvars, dvars, st, segment>>

\* the integration in a candloc of search_thresh_fftw: integrations[i] for
\* the position i of the image in the selected list, not i
integration_position(ints, i) == i

integration_of(ints, i) == ints[i + 1]

\* one image of the image1 / image1k loop of search_thresh_fftw
SearchImage ==
    /\ pc = "images" /\ ii < Len(integrations)
    /\ \E stats \in ImagesOf(data_corr.cube[integrations[ii + 1] + 1]) :
         LET candloc == <<segment, integration_of(integrations, ii), dmind, dtind, beamnum>>
             peak_snr == FloatDiv(stats[1], stats[2])
         IN  IF FloatGt(peak_snr, st.sigma_image1)
             THEN \E sigk \in (IF st.prefs.searchtype = "image1k"
                                THEN {<<k>> : k \in KalmanSignificances}
                                ELSE {NoKalman}) :
                  LET emit == CASE st.prefs.searchtype = "image1k" ->
                                       second_stage(sigk[1], peak_snr)
                                [] st.prefs.searchtype = "image1" -> TRUE
                                [] OTHER -> FALSE
                      cdl == IF emit THEN Append(canddatalist, candloc) ELSE canddatalist
                      app == IF emit THEN Append(appended, candloc) ELSE appended
                  IN  IF OverLimit(cdl)
                      THEN SetImage(stats, sigk, "images", ii + 1, << >>,
                                    AddCollections(cc, calc_features(cdl)),
                                    candcollection, app)
                      ELSE SetImage(stats, sigk, "images", ii + 1, cdl, cc,
                                    candcollection, app)
             ELSE SetImage(stats, NoKalman, "images", ii + 1, canddatalist, cc,
                           candcollection, appended)
    \* a candidate's snippet is cut from the corrected cube and phase shifted
    /\ \E frot \in Phasors :
          data_corr' = IF Len(appended') > Len(appended)
                       THEN SnippetShifted(data_corr, integrations[ii + 1], frot)
                       ELSE data_corr
    /\ dataph' = IF Len(appended') > Len(appended)
                 THEN Snippet(integrations[ii + 1], Len(data_corr.cube),
                              Len(data_corr.cube))
                 ELSE dataph
    /\ UNCHANGED <<kvars, gvars, lvars, kalvars, dvars, st, segment>>

\* the image loop is over: candcollection += calc_features(canddatalist),
\* search_thresh_fftw returns
SearchImagesReturn ==
    /\ pc = "images" /\ ii = Len(integrations)
    /\ ReturnToGrid(AddCollections(cc, calc_features(canddatalist)))
    /\ UNCHANGED <<kvars, gvars, lvars, kalvars, cdvars, dvars, st, segment, data_corr>>

\* one arm trigger of the imagearm / imagearmk loop of search_thresh_fftw
SearchArm ==
    /\ pc = "arms" /\ ii < Len(candisnr)
    /\ \E stats \in ImageStats :
         LET candloc == <<segment, integration_of(integrations, candisnr[ii + 1]), dmind,
                          dtind, beamnum>>
             peak_snr == FloatDiv(stats[1], stats[2])
         IN  IF FloatGt(peak_snr, st.sigma_image1)
             THEN IF st.prefs.searchtype = "imagearmk"
                  THEN \E sigk \in {<<k>> : k \in KalmanSignificances} :
                       IF second_stage(sigk[1], peak_snr)
                       THEN SetImage(stats, sigk, "arms", ii + 1,
                                     Append(canddatalist, candloc), cc, candcollection,
                                     Append(appended, candloc))
                       ELSE SetImage(stats, sigk, "arms", ii + 1, canddatalist, cc,
                                     candcollection, appended)
                  \* imagearm: CandData(image=armimage), a name never bound
                  ELSE Raise("NameError")
             ELSE SetImage(stats, NoKalman, "arms", ii + 1, canddatalist, cc,
                           candcollection, appended)
    /\ \E frot \in Phasors :
          data_corr' = IF Len(appended') > Len(appended)
                       THEN SnippetShifted(data_corr,
                                           integrations[candisnr[ii + 1] + 1], frot)
                       ELSE data_corr
    /\ dataph' = IF Len(appended') > Len(appended)
                 THEN Snippet(integrations[candisnr[ii + 1] + 1], Len(data_corr.cube),
                              Len(data_corr.cube))
                 ELSE dataph
    /\ UNCHANGED <<kvars, gvars, lvars, kalvars, dvars, st, segment>>

\* the arm loop is over: search_thresh_fftw returns candcollection as it is
SearchArmsReturn ==
    /\ pc = "arms" /\ ii = Len(candisnr)
    /\ ReturnToGrid(cc)
    /\ UNCHANGED <<kvars, gvars, lvars, kalvars, cdvars, dvars, st, segment, data_corr>>

\* all trials done: dedisperse_image_fftw returns its collection
FftwReturn ==
    /\ pc = "grid" /\ st.prefs.fftmode = "fftw"
    /\ dtind = Len(st.dtarr)
    /\ SetSearch("done", <<dtind, dmind>>, << >>, 0, << >>, << >>, << >>,
                 candcollection, appended)
    /\ UNCHANGED <<kvars, gvars, lvars, kalvars, cdvars, dvars, st, segment, data_corr>>

\* the assertions of dedisperse_image_cuda: st.dtarr[0] == 1 and
\* st.dtarr[dtind]*2 == st.dtarr[dtind+1] for every dtind
dtarr_asserted_firstonly(dtarr) == dtarr[1] = 1

dtarr_asserted(dtarr) ==
    /\ dtarr[1] = 1
    /\ \A n \in 1..(Len(dtarr) - 1) : dtarr[n] * 2 = dtarr[n + 1]

\* dedisperse_image_cuda is called: the assertions on dtarr, the all-zero
\* check, then the set-up of the device
CallCuda ==
    /\ pc = "idle" /\ op = "none"
    /\ st.prefs.fftmode = "cuda"
    /\ IF ~dtarr_asserted(st.dtarr)
       THEN Raise("AssertionError")
       ELSE IF ~npAny(data)
       THEN SetSearch("done", <<0, 0>>, << >>, 0, << >>, << >>, << >>, << >>, appended)
       \* vis_raw is allocated, filled with the data and sent to the device
       ELSE /\ SetLocals("grid", <<0, 0>>, << >>, 0, << >>, << >>, << >>, << >>,
                         appended)
            /\ exc' = exc
            /\ vis_raw' = [uploaded |-> TRUE, halved |-> 0]
            /\ UNCHANGED <<image, significance_kalman>>
    /\ UNCHANGED <<kvars, gvars, lvars, kalvars, cdvars, dvars, st, segment, data_corr>>

\* rfgpu Grid.downsample: the visibilities on the device are halved in time,
\* in place
downsample(vis) == [vis EXCEPT !.halved = @ + 1]

\* one trial of dedisperse_image_cuda up to its loop over integrations
CudaTrial ==
    /\ pc = "grid" /\ st.prefs.fftmode = "cuda"
    /\ dtind < Len(st.dtarr)
    /\ LET del == calc_delay(st.freq, SeqMax(st.freq), st.dmarr[dmind + 1], st.inttime)
           nlen == (Len(data) - SeqMax(del)) \div st.dtarr[dtind + 1]
       IN  /\ delay' = del
           \* if dtind > 0: grid.downsample(vis_raw)
           /\ vis_raw' = IF dtind > 0 THEN downsample(vis_raw) ELSE vis_raw
           /\ exc' = exc
           /\ image' = NoImage /\ significance_kalman' = NoKalman
           /\ \E ints \in get_search_ints(nlen) :
                IF ints = << >>
                THEN SetLocals("grid", NextTrial, << >>, 0, << >>, canddatalist, cc,
                               candcollection, appended)
                ELSE SetLocals("cudaints", <<dtind, dmind>>, ints, 0, << >>,
                               canddatalist, cc, candcollection, appended)
    /\ UNCHANGED <<data, dt, parallel, op, result, gvars, lvars, kalvars, cdvars, dvars, st, segment, data_corr>>

\* the images the device can give for integration i of the trial: the
\* device dedisperses, grids and transforms the visibilities it holds, and
\* an integration without signal gives the zero image.  Where the
\* visibilities on the device have not been halved to the dt of the trial,
\* any image can come out.
DeviceImagesOf(i) ==
    LET corr == dedisperseresample(data, delay, st.dtarr[dtind + 1], FALSE)
    IN  IF 2 ^ vis_raw.halved # st.dtarr[dtind + 1] \/ corr.kind = "error"
        THEN ImageStats
        ELSE ImagesOf(corr.cube[i + 1])

\* one integration of the loop of dedisperse_image_cuda
CudaImage ==
    /\ pc = "cudaints" /\ ii < Len(integrations)
    /\ \E stats \in DeviceImagesOf(integrations[ii + 1]) :
         LET candloc == <<segment, integrations[ii + 1], dmind, dtind, beamnum>>
             peak_snr == IF stats[2] # 0 THEN FloatDiv(stats[1], stats[2])
                         ELSE FloatDiv(0, 1)
             corr == dedisperseresample(data, delay, st.dtarr[dtind + 1],
                                        st.prefs.nthread > 1)
         IN  IF FloatGt(peak_snr, st.sigma_image1)
             THEN /\ data_corr' = corr
                  /\ data' = dedisperseresample_data(data, delay, st.dtarr[dtind + 1],
                                                     st.prefs.nthread > 1)
                  /\ IF corr.kind = "error" THEN Raise("ValueError")
                     ELSE LET cdl == Append(canddatalist, candloc)
                              app == Append(appended, candloc)
                          IN  IF OverLimit(cdl)
                              THEN SetImage(stats, NoKalman, "cudaints", ii + 1, << >>,
                                            cc, AddCollections(candcollection,
                                                               calc_features(cdl)), app)
                              ELSE SetImage(stats, NoKalman, "cudaints", ii + 1, cdl,
                                            cc, candcollection, app)
             ELSE /\ data_corr' = data_corr
                  /\ data' = data
                  /\ SetImage(stats, NoKalman, "cudaints", ii + 1, canddatalist, cc,
                              candcollection, appended)
    \* data_corr[max(0, i - timewindow//2):min(i + timewindow//2, len(data))]
    /\ dataph' = IF Len(appended') > Len(appended)
                 THEN Snippet(integrations[ii + 1], Len(data), Len(data_corr'.cube))
                 ELSE dataph
    /\ UNCHANGED <<delay, dt, parallel, op, result, gvars, lvars, kalvars, dvars, st,
                   segment>>

\* the loop over integrations is over: next trial
CudaNextTrial ==
    /\ pc = "cudaints" /\ ii = Len(integrations)
    /\ SetSearch("grid", NextTrial, << >>, 0, << >>, canddatalist, cc, candcollection,
                 appended)
    /\ UNCHANGED <<kvars, gvars, lvars, kalvars, cdvars, dvars, st, segment, data_corr>>

\* all trials done: candcollection += calc_features(canddatalist), return
CudaReturn ==
    /\ pc = "grid" /\ st.prefs.fftmode = "cuda"
    /\ dtind = Len(st.dtarr)
    /\ SetSearch("done", <<dtind, dmind>>, << >>, 0, << >>, canddatalist, cc,
                 AddCollections(candcollection, calc_features(canddatalist)), appended)
    /\ UNCHANGED <<kvars, gvars, lvars, kalvars, cdvars, dvars, st, segment, data_corr>>

\* prep_and_search with an fftmode that is neither cuda nor fftw: the
\* warning is logged and candidates.save_cands(st, candcollection) reads the
\* local candcollection, which no branch has bound (UnboundLocalError)
PrepAndSearchUnrecognized ==
    /\ pc = "idle" /\ op = "none"
    /\ st.prefs.fftmode \notin {"cuda", "fftw"}
    /\ Raise("UnboundLocalError")
    /\ UNCHANGED <<kvars, gvars, lvars, kalvars, cdvars, dvars, st, segment, data_corr>>

NextSearch ==
    \/ Dedisperse \/ Resample \/ DedisperseResample
    \/ CallFftw \/ FftwTrial \/ SearchImage \/ SearchImagesReturn
    \/ SearchArm \/ SearchArmsReturn \/ FftwReturn
    \/ CallCuda \/ CudaTrial \/ CudaImage \/ CudaNextTrial \/ CudaReturn
    \/ PrepAndSearchUnrecognized

SpecSearch == InitSearch /\ [][NextSearch]_vars

(***************************************************************************)
(* The uvw lock: concurrent search calls that share st.lock.  Each call    *)
(* walks its trials; in the fftw path search_thresh_fftw calls             *)
(* get_uvw_segment and then grid_image (grid_visibilities, image_fftw) in  *)
(* every trial, in the cuda path dedisperse_image_cuda calls               *)
(* get_uvw_segment once and then grids and images every trial.             *)
(***************************************************************************)
SearchCalls == 1..NCalls

\* segment time strings: one as calc_uvw wants it, one without a slash
DateStrings == {"2014/09/03/08:33:04.20", "56903.3563"}

\* '/' in datetime
HasSlash(datetime) == datetime = "2014/09/03/08:33:04.20"

\* the assertions of calc_uvw
calc_uvw_asserted(datetime, rd) == HasSlash(datetime) /\ Len(rd) = 2

\* st.lock.release()
lock_release_kept(holder) == holder

lock_release(holder) == 0

\* st.lock.acquire(): returns once no call holds the lock
lock_acquire_unguarded(holder) == TRUE

lock_acquire(holder) == holder = 0

InitLock ==
    /\ st_lock \in {"None", "Lock"}
    /\ lock_holder = 0
    /\ radec \in {<<180, 45>>, <<180>>}
    /\ fftmode \in {"fftw", "cuda"}
    /\ ntrials \in 1..MaxTrials
    /\ mjdstr \in [SearchCalls -> DateStrings]
    /\ callpc = [c \in SearchCalls |-> "get_uvw_segment"]
    /\ calltrial = [c \in SearchCalls |-> 0]
    /\ data = << >> /\ delay = << >> /\ dt = 1 /\ parallel = FALSE /\ op = "none"
    /\ result = NoResult
    /\ IdleGrid
    /\ IdleSearch
    /\ IdleKalman
    /\ IdleDelay
    /\ IdleSnippet

\* get_uvw_segment up to the call of calc_uvw: st.lock.acquire() blocks
\* while another call holds the lock
LockAcquire(c) ==
    /\ callpc[c] = "get_uvw_segment"
    /\ IF st_lock # "None"
       THEN lock_acquire(lock_holder) /\ lock_holder' = c
       ELSE lock_holder' = lock_holder
    /\ callpc' = [callpc EXCEPT ![c] = "calc_uvw"]
    /\ UNCHANGED <<kvars, gvars, svars, kalvars, cdvars, dvars, st_lock, radec, fftmode, ntrials, mjdstr,
                   calltrial>>

\* calc_uvw returns, or one of its assertions fails and the exception leaves
\* get_uvw_segment and the search call
CalcUvw(c) ==
    /\ callpc[c] = "calc_uvw"
    /\ callpc' = [callpc EXCEPT ![c] = IF calc_uvw_asserted(mjdstr[c], radec)
                                       THEN "release" ELSE "raised"]
    /\ UNCHANGED <<kvars, gvars, svars, kalvars, cdvars, dvars, st_lock, lock_holder, radec, fftmode, ntrials,
                   mjdstr, calltrial>>

\* the rest of get_uvw_segment: st.lock.release(), the uvw arrays are
\* returned and the caller goes on to gridding
LockRelease(c) ==
    /\ callpc[c] = "release"
    /\ lock_holder' = IF st_lock # "None" THEN lock_release(lock_holder)
                      ELSE lock_holder
    /\ callpc' = [callpc EXCEPT ![c] = "grid"]
    /\ UNCHANGED <<kvars, gvars, svars, kalvars, cdvars, dvars, st_lock, radec, fftmode, ntrials, mjdstr,
                   calltrial>>

\* grid_visibilities (in grid_image), or grid.operate on the device
GridCall(c) ==
    /\ callpc[c] = "grid"
    /\ callpc' = [callpc EXCEPT ![c] = "image"]
    /\ UNCHANGED <<kvars, gvars, svars, kalvars, cdvars, dvars, st_lock, lock_holder, radec, fftmode, ntrials,
                   mjdstr, calltrial>>

\* image_fftw, or image.operate on the device; then the next trial: the
\* fftw path enters search_thresh_fftw and get_uvw_segment again, the cuda
\* path keeps its uvw
ImageCall(c) ==
    /\ callpc[c] = "image"
    /\ IF calltrial[c] + 1 < ntrials
       THEN /\ calltrial' = [calltrial EXCEPT ![c] = @ + 1]
            /\ callpc' = [callpc EXCEPT ![c] = IF fftmode = "fftw"
                                               THEN "get_uvw_segment" ELSE "grid"]
       ELSE /\ calltrial' = calltrial
            /\ callpc' = [callpc EXCEPT ![c] = "done"]
    /\ UNCHANGED <<kvars, gvars, svars, kalvars, cdvars, dvars, st_lock, lock_holder, radec, fftmode, ntrials,
                   mjdstr>>

NextLock ==
    \E c \in SearchCalls :
        \/ LockAcquire(c) \/ CalcUvw(c) \/ LockRelease(c) \/ GridCall(c) \/ ImageCall(c)

SpecLock == InitLock /\ [][NextLock]_vars

\* the threads of the search calls are scheduled fairly: a call that can
\* take its next step does so at some time
SpecLockFair ==
    SpecLock /\ \A c \in SearchCalls :
                   WF_vars(LockAcquire(c) \/ CalcUvw(c) \/ LockRelease(c)
                              \/ GridCall(c) \/ ImageCall(c))

(***************************************************************************)
(* kalman_significance.  The detector's score is a float computation over  *)
(* the spectrum; here it is a table from the scale to an integer score.    *)
(* Scales are in thousandths of median(spec_std), the result in            *)
(* thousandths.                                                            *)
(***************************************************************************)
\* [x*np.median(spec_std) for x in [0.3, 0.1, 0.03, 0.01]]
DefaultScales == <<300, 100, 30, 10>>

ScaleValues == {300, 30}

DetectorScores == {1, 4}

\* (slope, intercept) pairs a polyfit may give
CoeffPairs == {<<1, 0>>, <<3, -2>>}

\* np.log(2), thousandths
Ln2Milli == 693

SeqsUpTo(S, n) == UNION {[1..k -> S] : k \in 0..n}

\* kalman_filter_detector(spec, spec_std, sig_t)
kalman_filter_detector(sig_t) == scores[sig_t]

\* kalman_prepare_coeffs(data_std, sig_ts) for a list sig_ts: what it may
\* return, the tuple (sig_ts, coeffs) with one fitted pair per scale
kalman_prepare_coeffs(scales) ==
    {<<scales, f>> : f \in [1..Len(scales) -> CoeffPairs]}

\* x_coeff * score + const_coeff; the two are numbers when coeff is a pair
\* of numbers and arrays when coeff is a list of fitted pairs
calibrated(coeff, score, isarray) ==
    IF isarray
    THEN <<coeff[1][1] * score + coeff[2][1], coeff[1][2] * score + coeff[2][2]>>
    ELSE <<coeff[1] * score + coeff[2]>>

MaxOf(S) == CHOOSE x \in S : \A y \in S : y <= x

InitKalman ==
    /\ sig_ts \in SeqsUpTo(ScaleValues, MaxScales)
    /\ coeffs \in SeqsUpTo(CoeffPairs, MaxScales)
    /\ scores \in [{DefaultScales[i] : i \in 1..4} \cup ScaleValues -> DetectorScores]
    /\ fitted = << >> /\ significances = << >>
    /\ kalpc = "call" /\ kalres = 0 /\ kalexc = "none"
    /\ data = << >> /\ delay = << >> /\ dt = 1 /\ parallel = FALSE /\ op = "none"
    /\ result = NoResult
    /\ IdleGrid
    /\ IdleSearch
    /\ IdleLock
    /\ IdleDelay
    /\ IdleSnippet

\* the defaults and the assertion: an empty sig_ts becomes the four default
\* scales, an empty coeffs becomes what kalman_prepare_coeffs returns
KalmanDefaults ==
    /\ kalpc = "call"
    /\ LET scales == IF Len(sig_ts) = 0 THEN DefaultScales ELSE sig_ts
       IN  /\ sig_ts' = scales
           /\ \E prepared \in kalman_prepare_coeffs(scales) :
                  /\ coeffs' = IF Len(coeffs) = 0 THEN prepared ELSE coeffs
                  /\ fitted' = IF Len(coeffs) = 0 THEN prepared[2] ELSE << >>
    /\ IF Len(sig_ts') = Len(coeffs')
       THEN kalpc' = "loop" /\ kalexc' = kalexc
       ELSE kalpc' = "raised" /\ kalexc' = "AssertionError"
    /\ UNCHANGED <<kvars, gvars, svars, lvars, cdvars, dvars, scores, significances, kalres>>

\* one iteration of the loop over enumerate(sig_ts)
KalmanScore ==
    /\ kalpc = "loop"
    /\ Len(significances) < Len(sig_ts)
    /\ LET i == Len(significances) + 1
           score == kalman_filter_detector(sig_ts[i])
           coeff == coeffs[i]
       IN  significances' = Append(significances,
                                   calibrated(coeff, score, Len(fitted) > 0 /\ i = 2))
    /\ UNCHANGED <<kvars, gvars, svars, lvars, cdvars, dvars, sig_ts, coeffs, fitted, scores, kalpc,
                   kalres, kalexc>>

\* np.max(significances) * np.log(2); np.max of a list that mixes a number
\* and an array raises ValueError
KalmanReturn ==
    /\ kalpc = "loop"
    /\ Len(significances) = Len(sig_ts)
    /\ IF \A i \in 1..Len(significances) : Len(significances[i]) = 1
       THEN /\ kalres' = MaxOf({significances[i][1] : i \in 1..Len(significances)})
                              * Ln2Milli
            /\ kalpc' = "returned" /\ kalexc' = kalexc
       ELSE /\ kalres' = kalres
            /\ kalpc' = "raised" /\ kalexc' = "ValueError"
    /\ UNCHANGED <<kvars, gvars, svars, lvars, cdvars, dvars, sig_ts, coeffs, fitted, scores,
                   significances>>

NextKalman == KalmanDefaults \/ KalmanScore \/ KalmanReturn

SpecKalman == InitKalman /\ [][NextKalman]_vars

(***************************************************************************)
(* calc_delay with its scale argument, over exact fractions.               *)
(***************************************************************************)
\* scale = 4.1488e-3 if not scale else scale: None and 0 give the default
EffectiveScale(sc) == IF sc = << >> THEN <<2593, 625000>>
                      ELSE IF sc[1] = 0 THEN <<2593, 625000>> ELSE sc

\* scale * dm * (1/f^2 - 1/freqref^2) / inttime as DelayNum / DelayDen, with
\* DelayDen > 0
DelayNum(f, fref, d, itime, sc) ==
    EffectiveScale(sc)[1] * d * (fref * fref - f * f) * itime[2]

DelayDen(f, fref, d, itime, sc) ==
    EffectiveScale(sc)[2] * f * f * fref * fref * itime[1]

\* the commented-out variant: np.round(..., 0), to the nearest integer
calc_delay_round(fs, fref, d, itime, sc) ==
    [n \in 1..Len(fs) |->
        (2 * DelayNum(fs[n], fref, d, itime, sc) + DelayDen(fs[n], fref, d, itime, sc))
            \div (2 * DelayDen(fs[n], fref, d, itime, sc))]

\* delay[i] = int(scale * dm * (1./freq[i]**2 - 1./freqref**2)/inttime)
calc_delay_scale(fs, fref, d, itime, sc) ==
    [n \in 1..Len(fs) |->
        TruncDiv(DelayNum(fs[n], fref, d, itime, sc), DelayDen(fs[n], fref, d, itime, sc))]

DelayFreqs == {1, 2, 3}

DelayDms == {0} \cup {50 * k : k \in 1..MaxDmStep}

InitDelay ==
    /\ freq \in UNION {[1..k -> DelayFreqs] : k \in 1..2}
    /\ freqref \in DelayFreqs
    /\ dm \in DelayDms
    /\ inttime \in {<<1, 1>>, <<1, 10>>, <<1, 100>>}
    /\ scale \in {<< >>, <<0, 1>>, <<21, 5000>>}
    /\ cdpc = "call"
    /\ data = << >> /\ delay = << >> /\ dt = 1 /\ parallel = FALSE /\ op = "none"
    /\ result = NoResult
    /\ IdleGrid
    /\ IdleSearch
    /\ IdleLock
    /\ IdleKalman
    /\ IdleSnippet

\* calc_delay(freq, freqref, dm, inttime, scale) returns the delay table
CalcDelay ==
    /\ cdpc = "call"
    /\ delay' = calc_delay_scale(freq, freqref, dm, inttime, scale)
    /\ cdpc' = "returned"
    /\ UNCHANGED <<data, dt, parallel, op, result, gvars, svars, lvars, kalvars, cdvars, freq,
                   freqref, dm, inttime, scale>>

NextDelay == CalcDelay

SpecDelay == InitDelay /\ [][NextDelay]_vars

(***************************************************************************)
(* Properties of the kernels.                                              *)
(***************************************************************************)
RECURSIVE RSum(_, _)
RSum(f, S) ==
    IF S = {} THEN Zero
    ELSE LET x == CHOOSE y \in S : TRUE IN RAdd(f[x], RSum(f, S \ {x}))

\* the dt input samples that contribute to output cell (i, j, k, l) of the
\* fused kernel (i is 0-based; j, k, l index the sequences)
Contributing(i, j, k, l) ==
    [r \in 0..(dt - 1) |-> data[i * dt + delay[k] + r + 1][j][k][l]]

NonZeroOf(s) == {r \in DOMAIN s : s[r] # Zero}

CellsOf(c) ==
    {<<i, j, k, l>> \in (1..Len(c)) \X (1..Len(data[1])) \X (1..Len(data[1][1]))
                         \X (1..Len(data[1][1][1])) : TRUE}

\* C1: for a cube that is not all zero, max(delay) <= nint and dt >= 1,
\* dedisperseresample returns floor((nint - max(delay))/dt) integrations and
\* each cell is the sum of its dt contributing samples divided by the number
\* of non-zero ones, or exactly 0 when there is none.
C1_FusedContract ==
    (op = "dedisperseresample" /\ npAny(data) /\ SeqMax(delay) <= Len(data)) =>
        /\ result.kind = "array"
        /\ Len(result.cube) = (Len(data) - SeqMax(delay)) \div dt
        /\ \A c \in CellsOf(result.cube) :
              LET s == Contributing(c[1] - 1, c[2], c[3], c[4])
                  nz == NonZeroOf(s)
              IN  result.cube[c[1]][c[2]][c[3]][c[4]] =
                      IF nz = {} THEN Zero
                      ELSE RDivInt(RSum(s, DOMAIN s), Cardinality(nz))

\* a fused call with a channel delay and dt >= 2 in which some output cell
\* beyond the first integration averages over fewer than dt non-zero samples
C1_Witness ==
    /\ op = "dedisperseresample" /\ npAny(data) /\ SeqMax(delay) <= Len(data)
    /\ dt >= 2 /\ SeqMax(delay) >= 1
    /\ result.kind = "array"
    /\ \E c \in CellsOf(result.cube) :
          LET nz == NonZeroOf(Contributing(c[1] - 1, c[2], c[3], c[4]))
          IN  nz # {} /\ Cardinality(nz) < dt

\* C2 as stated: with an all-zero delay table and dt = 1 the fused wrapper
\* returns a cube equal to its input, for every cube.
C2_IdentityAllCubes ==
    (op = "dedisperseresample" /\ dt = 1 /\ SeqMax(delay) = 0) =>
        (result.kind = "array" /\ result.cube = data)

\* C2 (amended): with an all-zero delay table and dt = 1 the fused wrapper
\* returns a cube equal to its input for every cube that has a non-zero
\* sample, in the sequential and in the parallel mode.
C2_Identity ==
    (op = "dedisperseresample" /\ dt = 1 /\ SeqMax(delay) = 0 /\ npAny(data)) =>
        (result.kind = "array" /\ result.cube = data)

C2_Witness ==
    /\ op = "dedisperseresample" /\ dt = 1 /\ SeqMax(delay) = 0 /\ parallel
    /\ Len(data) >= 2
    /\ \E c \in CellsOf(data) : data[c[1]][c[2]][c[3]][c[4]] = Zero
    /\ \E c \in CellsOf(data) : data[c[1]][c[2]][c[3]][c[4]] # Zero
    /\ result.cube = data

\* C3: in the fused kernel a cell with exactly one non-zero contributing
\* sample equals that sample, a cell whose contributing samples are all zero
\* equals 0, and no division by zero is raised.
C3_WeightedAverage ==
    (op = "dedisperseresample" /\ npAny(data) /\ SeqMax(delay) <= Len(data)) =>
        /\ result.kind = "array"
        /\ \A c \in CellsOf(result.cube) :
              LET s == Contributing(c[1] - 1, c[2], c[3], c[4])
                  nz == NonZeroOf(s)
                  cell == result.cube[c[1]][c[2]][c[3]][c[4]]
              IN  /\ cell # DivByZero
                  /\ Cardinality(nz) = 1 => \A r \in nz : cell = s[r]
                  /\ nz = {} => cell = Zero

\* a sequential fused call with dt >= 2 that has both a cell with exactly
\* one non-zero contributing sample and a cell with none
C3_Witness ==
    /\ op = "dedisperseresample" /\ ~parallel /\ dt >= 2
    /\ result.kind = "array"
    /\ \E c \in CellsOf(result.cube) :
          Cardinality(NonZeroOf(Contributing(c[1] - 1, c[2], c[3], c[4]))) = 1
    /\ \E c \in CellsOf(result.cube) :
          NonZeroOf(Contributing(c[1] - 1, c[2], c[3], c[4])) = {}

\* C5 as stated: for every cube that is not all zero and every delay table,
\* dedisperse returns nint - max(delay) integrations with
\* out[i, j, k, l] = in[i + delay[k], j, k, l].
C5_DedisperseAnyDelay ==
    (op = "dedisperse" /\ npAny(data)) =>
        /\ result.kind = "array"
        /\ Len(result.cube) = Len(data) - SeqMax(delay)
        /\ \A c \in CellsOf(result.cube) :
              result.cube[c[1]][c[2]][c[3]][c[4]] =
                  data[c[1] + delay[c[3]]][c[2]][c[3]][c[4]]

\* C5 (amended): the same for every delay table of non-negative delays with
\* max(delay) <= nint.
C5_Dedisperse ==
    (op = "dedisperse" /\ npAny(data) /\ SeqMax(delay) <= Len(data)) =>
        /\ result.kind = "array"
        /\ Len(result.cube) = Len(data) - SeqMax(delay)
        /\ \A c \in CellsOf(result.cube) :
              result.cube[c[1]][c[2]][c[3]][c[4]] =
                  data[c[1] + delay[c[3]]][c[2]][c[3]][c[4]]

\* a dedispersion with two channels of different delay and two or more
\* output integrations
C5_Witness ==
    /\ op = "dedisperse" /\ npAny(data) /\ result.kind = "array"
    /\ Len(result.cube) >= 2
    /\ Len(delay) = 2 /\ delay[1] # delay[2]

\* C6: for a cube that is not all zero and dt >= 1, resample returns
\* floor(nint/dt) integrations, each cell the sum of dt consecutive samples
\* divided by dt (zero samples count in the divisor).
C6_Resample ==
    (op = "resample" /\ npAny(data)) =>
        /\ result.kind = "array"
        /\ Len(result.cube) = Len(data) \div dt
        /\ \A c \in CellsOf(result.cube) :
              LET s == [r \in 0..(dt - 1) |->
                           data[(c[1] - 1) * dt + r + 1][c[2]][c[3]][c[4]]]
              IN  result.cube[c[1]][c[2]][c[3]][c[4]] = RDivInt(RSum(s, DOMAIN s), dt)

\* a resampling by dt >= 2 with a cell that averages a zero and a non-zero
\* sample, in an output of two or more integrations
C6_Witness ==
    /\ op = "resample" /\ dt >= 2 /\ result.kind = "array"
    /\ Len(result.cube) >= 2
    /\ \E c \in CellsOf(result.cube) :
          LET s == [r \in 0..(dt - 1) |->
                       data[(c[1] - 1) * dt + r + 1][c[2]][c[3]][c[4]]]
          IN  NonZeroOf(s) # {} /\ NonZeroOf(s) # DOMAIN s

\* C7 as stated: for every cube, delay table and dt the sequential and the
\* parallel variant of the wrapper that was called return equal results.
C7_ParallelEqualsSequentialAnyDelay ==
    /\ op = "dedisperse" => result = dedisperse(data, delay, ~parallel)
    /\ op = "resample" => result = resample(data, dt, ~parallel)
    /\ op = "dedisperseresample" => result = dedisperseresample(data, delay, dt, ~parallel)

\* C7 (amended): the same for every cube, every dt and every delay table
\* with max(delay) <= nint.
C7_ParallelEqualsSequential ==
    /\ (op = "dedisperse" /\ SeqMax(delay) <= Len(data)) =>
           result = dedisperse(data, delay, ~parallel)
    /\ op = "resample" => result = resample(data, dt, ~parallel)
    /\ (op = "dedisperseresample" /\ SeqMax(delay) <= Len(data)) =>
           result = dedisperseresample(data, delay, dt, ~parallel)

\* a parallel fused call that rewrote its copy in place: dt >= 2, a delay,
\* two or more output integrations
C7_Witness ==
    /\ op = "dedisperseresample" /\ parallel /\ npAny(data)
    /\ dt >= 2 /\ SeqMax(delay) >= 1
    /\ result.kind = "array" /\ Len(result.cube) >= 2

(***************************************************************************)
(* Properties of the gridder.                                              *)
(***************************************************************************)
\* C8: the sequential and the parallel gridder produce the same grids.
C8_GridBackendsAgree ==
    op = "grid_visibilities" =>
        grids = grid_visibilities(data, u, v, npixx, npixy, uvres, ~parallel)

\* the (baseline, channel) pairs of the cube
BlChans == (1..Len(data[1])) \X (1..Len(data[1][1]))

\* in-field pairs: |round(u/uvres)| < npixx/2 and |round(v/uvres)| < npixy/2
InField(p) ==
    /\ 2 * Abs(RoundDiv(u[p[1]][p[2]], uvres)) < npixx
    /\ 2 * Abs(RoundDiv(v[p[1]][p[2]], uvres)) < npixy

\* C9: every grid cell is the sum, over the in-field (baseline, channel)
\* pairs whose rounded coordinates fold onto it, of the visibilities of all
\* polarizations; out-of-field pairs contribute nothing.
C9_GridContract ==
    op = "grid_visibilities" =>
        \A i \in 1..Len(data) : \A x \in 0..(npixx - 1) : \A y \in 0..(npixy - 1) :
            LET here == {p \in BlChans :
                            /\ InField(p)
                            /\ RoundDiv(u[p[1]][p[2]], uvres) % npixx = x
                            /\ RoundDiv(v[p[1]][p[2]], uvres) % npixy = y}
                vis == [p \in here |->
                           RSum(data[i][p[1]][p[2]], 1..Len(data[i][p[1]][p[2]]))]
            IN  grids[i][x + 1][y + 1] = RSum(vis, here)

\* C9 restricted to the parallel gridder
C9_GridContractParallel == parallel => C9_GridContract

(***************************************************************************)
(* Properties of the extractor.                                            *)
(***************************************************************************)
ValidLadder ==
    /\ st.dtarr[1] = 1
    /\ \A n \in 1..(Len(st.dtarr) - 1) : st.dtarr[n] * 2 = st.dtarr[n + 1]

\* dedisperse_image_fftw or dedisperse_image_cuda is the function called
ExtractorCalled == st # NoState /\ st.prefs.fftmode \in {"cuda", "fftw"}

\* C4 as stated: on an all-zero cube the kernels return an empty array and
\* the extractors return no candidate and never raise, for every trial grid
\* and every search mode.
C4_AllZeroAnyGrid ==
    ~npAny(data) =>
        /\ op # "none" => result = Array(EmptyArray)
        /\ ExtractorCalled => pc # "raised"
        /\ pc = "done" => candcollection = << >>

\* C4 (amended): the same, except that dedisperse_image_cuda does so only
\* for a trial grid whose dt ladder starts at 1 and doubles; with any other
\* ladder it fails its assertion before it looks at the data.
C4_AllZero ==
    ~npAny(data) =>
        /\ op # "none" => result = Array(EmptyArray)
        /\ (ExtractorCalled /\ pc = "raised") =>
               (st.prefs.fftmode = "cuda" /\ ~ValidLadder)
        /\ pc = "done" => candcollection = << >>

\* the fftw extractor has walked a grid of several trials of an all-zero
\* cube in a search mode it does not implement, and returned
C4_Witness ==
    /\ ~npAny(data) /\ Len(data) > 1
    /\ pc = "done" /\ candcollection = << >>
    /\ st.prefs.fftmode = "fftw" /\ st.prefs.searchtype = "other"
    /\ Len(st.dtarr) = 2 /\ Len(st.dmarr) = 2

\* C11: the candidate buffer never holds a set of candidates whose estimated
\* footprint len(canddatalist) * bytespercd is above memory_limit.
C11_BufferWithinLimit == st # NoState => ~OverLimit(canddatalist)

\* C11 restricted to the loops that check the limit (image1 and image1k of
\* search_thresh_fftw, dedisperse_image_cuda): after each append and check
\* the buffer is within the limit.
C11_BufferWithinLimitImage ==
    (st # NoState /\ st.prefs.searchtype \notin {"imagearm", "imagearmk"}) =>
        ~OverLimit(canddatalist)

\* C11, the batch that a flush inside the image loop of search_thresh_fftw
\* hands to calc_features is within the limit
C11_FlushedBatchWithinLimit ==
    [][(pc = "images" /\ pc' = "images" /\ cc' # cc) =>
          (Len(cc') - Len(cc)) * bytespercd(st) <= st.prefs.memory_limit]_vars

\* C12: prep_and_search with an fftmode that is neither cuda nor fftw does
\* not raise, and what it returns is an empty candidate collection.
C12_UnrecognizedModeNoOp ==
    (st # NoState /\ st.prefs.fftmode \notin {"cuda", "fftw"}) =>
        /\ pc # "raised"
        /\ pc = "done" => candcollection = << >>

\* C13: search_thresh_fftw with a searchtype outside image1, image1k,
\* imagearm, imagearmk never returns a candidate collection (the trial grid
\* is never advanced and never completed) and the error that ends it is the
\* not-implemented one.
C13_UnsupportedModeFatal ==
    (st # NoState /\ st.prefs.fftmode = "fftw" /\
     st.prefs.searchtype \notin {"image1", "image1k", "imagearm", "imagearmk"}) =>
        /\ pc # "done"
        /\ pc = "grid" => <<dtind, dmind>> = <<0, 0>>
        /\ pc = "raised" => exc = "NotImplementedError"

\* C14: with a dt ladder that does not start at 1 or does not double,
\* dedisperse_image_cuda ends in its assertion error with nothing allocated
\* or sent to the device, no trial started and no candidate made; it gets
\* past the call only with a ladder that starts at 1 and doubles.
C14_LadderAsserted ==
    (st # NoState /\ st.prefs.fftmode = "cuda") =>
        /\ ~ValidLadder =>
              /\ pc \in {"idle", "raised"}
              /\ pc = "raised" => exc = "AssertionError"
              /\ vis_raw = NoDevice
              /\ appended = << >> /\ canddatalist = << >> /\ candcollection = << >>
        /\ pc \in {"grid", "cudaints", "done"} => ValidLadder

\* dedisperse_image_cuda has been called on a cube with a pulse and a
\* ladder that starts at 1 and does not double, and has failed
C14_Witness ==
    /\ st # NoState /\ st.prefs.fftmode = "cuda"
    /\ st.dtarr[1] = 1 /\ ~ValidLadder /\ npAny(data)
    /\ pc = "raised" /\ exc = "AssertionError"

\* C16: while dedisperse_image_cuda grids the integrations of the trial
\* (dmind, dtind), the visibilities on the device have been halved exactly
\* dtind times since they were sent.
C16_HalvedOncePerDt ==
    (st # NoState /\ st.prefs.fftmode = "cuda" /\ pc = "cudaints") =>
        vis_raw.halved = dtind

\* C16 restricted to trial grids of one dm
C16_HalvedOncePerDtOneDm ==
    (st # NoState /\ Len(st.dmarr) = 1) => C16_HalvedOncePerDt

\* C15: an image whose noise estimate is 0 never produces a candidate, in
\* the fftw path and in the cuda path.
C15_ZeroNoiseNoCandidate ==
    [][(ii' = ii + 1 /\ image' # NoImage /\ image'[2] = 0) =>
          appended' = appended]_vars

\* C15 restricted to dedisperse_image_cuda
C15_ZeroNoiseNoCandidateCuda ==
    [][(st.prefs.fftmode = "cuda" /\ ii' = ii + 1 /\ image' # NoImage /\
        image'[2] = 0) => appended' = appended]_vars

\* peak SNR of the image img above sigma_image1; total_snr above sigma_kalman
\* for the Kalman significance sigk, as squares in hundredths
ClearsFirst(img) == img[2] # 0 => img[1] > st.sigma_image1 * img[2]

ClearsSecond(img, sigk) ==
    \/ img[2] = 0
    \/ /\ img[1] >= 2 * img[2]
       /\ sigk + 378 >= 0
       /\ 2 * (sigk + 378) > 100 * st.prefs.sigma_kalman * st.prefs.sigma_kalman

\* C17: in search_thresh_fftw with searchtype image1k or imagearmk, a step
\* that appends a candidate has thresholded an image whose peak SNR is
\* above sigma_image1 and whose total_snr = sqrt(2*(kalman significance +
\* image significance)) is above sigma_kalman; an image that clears the first
\* threshold and not the second appends nothing.
C17_SecondStage ==
    [][(st.prefs.fftmode = "fftw" /\ st.prefs.searchtype \in {"image1k", "imagearmk"}
        /\ ii' = ii + 1 /\ image' # NoImage) =>
          (appended' # appended =>
              /\ image'[1] # 0 /\ ClearsFirst(image')
              /\ significance_kalman' # NoKalman
              /\ ClearsSecond(image', significance_kalman'[1]))]_vars

\* a finite image has cleared the first threshold with a Kalman significance
\* too low for the second: the loop went on without a candidate
C17_Witness ==
    /\ st # NoState /\ st.prefs.fftmode = "fftw" /\ st.prefs.searchtype = "image1k"
    /\ pc = "images" /\ ii = 1 /\ image = <<2, 1>> /\ significance_kalman = <<0>>
    /\ appended = << >>

\* C18: a search call that is gridding or imaging does not hold st.lock: it
\* released the lock in get_uvw_segment before grid_visibilities,
\* grid.operate or image_fftw started, in every trial and in both paths.
C18_LockNotHeldWhileGridding ==
    \A c \in DOMAIN callpc :
        callpc[c] \in {"grid", "image"} => lock_holder # c

\* a call grids in its second trial, having taken and released the lock
\* twice, while another call is inside calc_uvw with the lock
C18_Witness ==
    \E c, d \in DOMAIN callpc :
        /\ st_lock = "Lock" /\ fftmode = "fftw"
        /\ callpc[c] = "grid" /\ calltrial[c] = 1
        /\ callpc[d] = "calc_uvw" /\ lock_holder = d

\* the calibrations of the call: those passed in, or those fitted in it
KalmanModel == IF Len(fitted) > 0 THEN fitted ELSE coeffs

\* the largest slope * score + intercept over the scales, the i-th scale
\* with the i-th calibration, times ln(2)
PairedMax ==
    MaxOf({KalmanModel[i][1] * scores[sig_ts[i]] + KalmanModel[i][2] :
               i \in 1..Len(sig_ts)}) * Ln2Milli

\* C20: every call of kalman_significance returns the maximum over the
\* scales of slope * score + intercept, the i-th scale paired with the i-th
\* calibration, times ln(2).
C20_PairedCalibratedMax ==
    kalpc \in {"returned", "raised"} =>
        /\ kalpc = "returned"
        /\ kalres = PairedMax

\* C20, calls that pass one calibration per scale: the same.
C20_PairedCalibratedMaxGiven ==
    (/\ kalpc \in {"returned", "raised"}
     /\ Len(fitted) = 0
     /\ Len(sig_ts) = Len(coeffs)) =>
        /\ kalpc = "returned"
        /\ kalres = PairedMax

\* the image search of the fftw extractor has returned
ImageSearchDone ==
    /\ pc = "done" /\ exc = "none"
    /\ st.prefs.fftmode = "fftw"
    /\ st.prefs.searchtype \in {"image1", "image1k"}

\* the injected transient: its width is the number of integrations of the
\* segment that carry signal, its DM is 0
TransientWidth ==
    Cardinality({i \in 1..Len(data) : npAny(<<data[i]>>)})

\* the trials (dtind, dmind) of the grid at the transient's width and DM
ExpectedTrials ==
    {t \in (0..(Len(st.dtarr) - 1)) \X (0..(Len(st.dmarr) - 1)) :
        st.dtarr[t[1] + 1] = TransientWidth /\ st.dmarr[t[2] + 1] = 0}

\* the positions in the collection of the candidates at the expected
\* (segment, dm-index, dt-index)
AtExpected ==
    {k \in 1..Len(candcollection) :
        /\ candcollection[k][1] = segment
        /\ <<candcollection[k][4], candcollection[k][3]>> \in ExpectedTrials}

\* the corrected cube of the trial of candidate c has signal in the
\* candidate's integration
OnSignal(c) ==
    LET del == calc_delay(st.freq, SeqMax(st.freq), st.dmarr[c[3] + 1], st.inttime)
        corr == dedisperseresample(data, del, st.dtarr[c[4] + 1], st.prefs.nthread > 1)
    IN  npAny(<<corr.cube[c[2] + 1]>>)

\* C19, as the extractor has it: an image that clears the first threshold
\* puts its candidate, with the segment, integration, dm-index and dt-index
\* of the image, at the end of what the call has collected; and when the
\* image search has returned, the collection holds every candidate that was
\* emitted, in order, each once, each on an integration that carries signal
\* of the transient.  There is one candidate for every such integration of a
\* trial, not one for the trial.
C19_TransientCandidates ==
    /\ (/\ pc = "images" /\ ii > 0 /\ image # NoImage
        /\ st.prefs.searchtype = "image1"
        /\ FloatGt(FloatDiv(image[1], image[2]), st.sigma_image1)) =>
           LET held == cc \o canddatalist
           IN  /\ Len(held) > 0
               /\ held[Len(held)] = <<segment, integrations[ii], dmind, dtind, beamnum>>
    /\ ImageSearchDone =>
           /\ candcollection = appended
           /\ \A j, k \in 1..Len(candcollection) :
                  j # k => candcollection[j] # candcollection[k]
           /\ \A k \in 1..Len(candcollection) : OnSignal(candcollection[k])

\* the search of a segment with a transient two integrations wide, over a
\* grid with its DM and width, has returned with candidates at the expected
\* trial
C19_Witness ==
    /\ ImageSearchDone
    /\ TransientWidth = 2
    /\ ExpectedTrials # {}
    /\ AtExpected # {}

\* C19 as stated: when the search of a segment with a transient over a grid
\* with its DM and width finds it, the collection holds exactly one
\* candidate at the expected (segment, dm-index, dt-index).
C19_ExactlyOneCandidate ==
    (/\ ImageSearchDone
     /\ TransientWidth > 0
     /\ AtExpected # {}) =>
        Cardinality(AtExpected) = 1

\* C21: a call of kalman_significance without coeffs fits the calibrations
\* itself and returns a value: it does not fail its length assertion, and it
\* holds one (slope, intercept) pair per scale.
C21_DefaultCoeffsReturn ==
    (kalpc \in {"returned", "raised"} /\ Len(fitted) > 0) =>
        /\ kalpc = "returned" /\ kalexc = "none"
        /\ Len(coeffs) = Len(sig_ts)

\* the exact value of channel n, as a fraction with a positive denominator
C22Num(n) == DelayNum(freq[n], freqref, dm, inttime, scale)

C22Den(n) == DelayDen(freq[n], freqref, dm, inttime, scale)

\* C22 as stated: for every channel, reference frequency, dm and inttime the
\* delay is the floor of the exact value: delay <= value < delay + 1.
C22_FloorEverywhere ==
    cdpc = "returned" =>
        \A n \in 1..Len(freq) :
            /\ delay[n] * C22Den(n) <= C22Num(n)
            /\ C22Num(n) < (delay[n] + 1) * C22Den(n)

\* C22, amended: the delay is the exact value cut toward zero.  It is the
\* floor where the value is not negative (freqref >= freq[n], as in the
\* extractor, which passes the highest frequency), never the value rounded
\* up to the nearest integer; where the value is negative it is the
\* ceiling.  A scale that is not given, or is 0, is 4.1488e-3.
C22_TruncatesTowardZero ==
    cdpc = "returned" =>
        /\ Len(delay) = Len(freq)
        /\ \A n \in 1..Len(freq) :
               IF C22Num(n) >= 0
               THEN /\ delay[n] * C22Den(n) <= C22Num(n)
                    /\ C22Num(n) < (delay[n] + 1) * C22Den(n)
               ELSE /\ (delay[n] - 1) * C22Den(n) < C22Num(n)
                    /\ C22Num(n) <= delay[n] * C22Den(n)
        /\ (scale = << >> \/ scale = <<0, 1>>) =>
               \A n \in 1..Len(freq) :
                   /\ C22Num(n) = 2593 * dm * (freqref * freqref - freq[n] * freq[n])
                                       * inttime[2]
                   /\ C22Den(n) = 625000 * freq[n] * freq[n] * freqref * freqref
                                       * inttime[1]

\* a delay of at least 1 whose exact value lies half or more above it, so
\* that rounding to nearest would give one more
C22_Witness ==
    /\ cdpc = "returned"
    /\ \E n \in 1..Len(freq) :
          /\ delay[n] >= 1
          /\ 2 * C22Num(n) >= (2 * delay[n] + 1) * C22Den(n)

\* C23: no step of a kernel wrapper or of the extractor changes the cube it
\* was called with: dedisperse, resample and dedisperseresample, sequential
\* or parallel, leave data as it was, dedisperse_image_fftw and
\* dedisperse_image_cuda leave data as it was, and search_thresh_fftw leaves
\* the corrected cube it was given as it was, also when it phase shifts the
\* snippet of a candidate.
C23_InputsReadOnly ==
    [][/\ data' = data
       /\ pc \in {"images", "arms"} => data_corr' = data_corr]_vars

\* the fftw extractor on more than one thread has corrected a cube with
\* signal with the parallel kernel, and has cut and phase shifted the
\* snippet of a candidate
C23_Witness ==
    /\ pc = "images" /\ st.prefs.nthread > 1
    /\ Len(appended) > 0 /\ npAny(data) /\ npAny(data_corr.cube)

\* image max / madtostd(image) of the image img = (peak, noise) against
\* sigma_image1: a noise of 0 gives inf for a positive peak, -inf for a
\* negative one and nan, which is on neither side, for 0/0
C24Above(img) ==
    IF img[2] = 0 THEN img[1] > 0 ELSE img[1] > st.sigma_image1 * img[2]

C24AtOrBelow(img) ==
    IF img[2] = 0 THEN img[1] < 0 ELSE img[1] <= st.sigma_image1 * img[2]

\* C24: in image1 mode every step of the image loop of search_thresh_fftw
\* over an image whose peak SNR is strictly greater than sigma_image1 emits
\* exactly one candidate, the one of that integration, into what the call
\* holds; a step over an image whose peak SNR is less than or equal to
\* sigma_image1 emits none.
C24_OnePerImageAbove ==
    [][(/\ pc = "images" /\ st.prefs.fftmode = "fftw"
        /\ st.prefs.searchtype = "image1"
        /\ ii' = ii + 1 /\ image' # NoImage) =>
          LET cand == <<segment, integrations[ii + 1], dmind, dtind, beamnum>>
          IN  /\ C24Above(image') =>
                    /\ appended' = Append(appended, cand)
                    /\ cc' \o canddatalist' = Append(cc \o canddatalist, cand)
              /\ C24AtOrBelow(image') =>
                    /\ appended' = appended
                    /\ cc' \o canddatalist' = cc \o canddatalist]_vars

\* the image1 loop has emitted a candidate for its first integration and
\* none for the second, whose peak SNR equals sigma_image1
C24_Witness ==
    /\ pc = "images" /\ st.prefs.fftmode = "fftw" /\ st.prefs.searchtype = "image1"
    /\ ii = 2 /\ image = <<1, 1>> /\ Len(cc \o canddatalist) = 1
    /\ appended = <<<<segment, integrations[1], dmind, dtind, beamnum>>>>

\* C25: a step that emits a candidate gives it the tuple (segment,
\* integration, dmind, dtind, beamnum) of the trial the extractor is in, with
\* the index in the corrected data of the integration whose image was
\* thresholded, not its position in the selected list; in the image loop of
\* the fftw path that integration is one the image can have come from.
C25_CandidateIdentity ==
    [][Len(appended') = Len(appended) + 1 =>
          LET cand == appended'[Len(appended')]
              imaged == IF pc = "arms" THEN integrations[candisnr[ii + 1] + 1]
                        ELSE integrations[ii + 1]
          IN  /\ cand = <<segment, imaged, dmind, dtind, beamnum>>
              /\ dtind < Len(st.dtarr) /\ dmind < Len(st.dmarr)
              /\ pc = "images" => image' \in ImagesOf(data_corr.cube[cand[2] + 1])]_vars

\* a candidate of the second dm trial was emitted for the integration 1 or
\* 2 of the corrected data, which was the first of the selected list
C25_Witness ==
    /\ pc \in {"images", "cudaints"} /\ ii = 1 /\ dmind = 1
    /\ integrations[1] > 0
    /\ appended # << >>
    /\ appended[Len(appended)] = <<segment, integrations[1], 1, dtind, beamnum>>

\* a window of width tw centred on integration i lies inside n integrations
C26Inside(i, tw, n) == i - tw \div 2 >= 0 /\ i + (tw - tw \div 2) <= n

\* C26: the snippet of a candidate detected at integration i contains
\* integration i, has at most timewindow integrations, and has exactly
\* timewindow integrations when the window lies fully inside the corrected
\* data; it stays within the data.
C26_SnippetWindow ==
    [][Len(appended') = Len(appended) + 1 =>
          LET i == appended'[Len(appended')][2]
              tw == st.prefs.timewindow
              n == Len(data_corr'.cube)
              len == dataph'[2] - dataph'[1]
          IN  /\ dataph'[1] <= i /\ i < dataph'[2]
              /\ len <= tw
              /\ C26Inside(i, tw, n) => len = tw
              /\ 0 <= dataph'[1] /\ dataph'[2] <= n]_vars

\* C26 restricted to an even timewindow
C26_SnippetWindowEven ==
    [][(st # NoState /\ st.prefs.timewindow % 2 = 0) =>
           (Len(appended') = Len(appended) + 1 =>
              LET i == appended'[Len(appended')][2]
                  tw == st.prefs.timewindow
                  n == Len(data_corr'.cube)
                  len == dataph'[2] - dataph'[1]
              IN  /\ dataph'[1] <= i /\ i < dataph'[2]
                  /\ len <= tw
                  /\ (i - tw \div 2 >= 0 /\ i + tw \div 2 <= n) => len = tw
                  /\ 0 <= dataph'[1] /\ dataph'[2] <= n)]_vars

\* C27: in the output of the fused kernel a cell is exactly 0 only if all
\* dt samples that contribute to it are zero.
C27_ZeroMeansFlagged ==
    (op = "dedisperseresample" /\ ~parallel /\ npAny(data)
        /\ SeqMax(delay) <= Len(data) /\ result.kind = "array") =>
        \A c \in CellsOf(result.cube) :
            result.cube[c[1]][c[2]][c[3]][c[4]] = Zero =>
                NonZeroOf(Contributing(c[1] - 1, c[2], c[3], c[4])) = {}

\* what the kernel gives: a cell is 0 when its samples are all zero or when
\* the non-zero ones sum to zero
C27_ZeroMeansFlaggedOrCancelled ==
    (op = "dedisperseresample" /\ ~parallel /\ npAny(data)
        /\ SeqMax(delay) <= Len(data) /\ result.kind = "array") =>
        \A c \in CellsOf(result.cube) :
            LET s == Contributing(c[1] - 1, c[2], c[3], c[4])
            IN  result.cube[c[1]][c[2]][c[3]][c[4]] = Zero <=>
                    (NonZeroOf(s) = {} \/ RSum(s, DOMAIN s) = Zero)

\* the search calls that are inside calc_uvw
InCalcUvw == {c \in DOMAIN callpc : callpc[c] = "calc_uvw"}

\* C28: when the search calls share a lock (st.lock is not None), at most
\* one of them is inside calc_uvw at any time, and that one holds the lock.
C28_OneInCalcUvw ==
    st_lock # "None" =>
        /\ Cardinality(InCalcUvw) <= 1
        /\ \A c \in InCalcUvw : lock_holder = c

\* a call is inside calc_uvw in its second trial while another call waits
\* in get_uvw_segment for the lock
C28_Witness ==
    /\ st_lock # "None"
    /\ \E c, e \in DOMAIN callpc :
          /\ c # e /\ callpc[c] = "calc_uvw" /\ calltrial[c] = 1
          /\ callpc[e] = "get_uvw_segment" /\ lock_holder = c

\* C29: no search call is outside get_uvw_segment and still holds st.lock:
\* the lock is released on every path out of the function, the path where
\* calc_uvw raises included.
C29_LockReleasedOnExit ==
    \A c \in DOMAIN callpc :
        callpc[c] \notin {"get_uvw_segment", "calc_uvw", "release"} =>
            lock_holder # c

\* C29, the consequence: a call that holds the lock gives it up at some
\* time, so that the calls waiting for it proceed
C29_LockEventuallyFree ==
    \A c \in SearchCalls : (lock_holder = c) ~> (lock_holder # c)

\* C29 restricted to calls in which calc_uvw does not raise
C29_LockReleasedOnReturn ==
    \A c \in DOMAIN callpc :
        (callpc[c] \notin {"get_uvw_segment", "calc_uvw", "release"}
            /\ callpc[c] # "raised") => lock_holder # c

\* the input integrations iprime = i + delay[k] that _dedisperse_jit (par
\* FALSE) or _dedisperse_gu (par TRUE) reads in dedisperse(d, del, par)
dedisperse_reads(d, del, par) ==
    IF ~npAny(d) \/ (par /\ SeqMax(del) <= 0) THEN {}
    ELSE {i + del[k] : i \in 0..(Len(d) - SeqMax(del) - 1), k \in DOMAIN del}

\* the input integrations iprime = i*dt + delay[k] + r that
\* _dedisperseresample_jit or _dedisperseresample_gu reads
dedisperseresample_reads(d, del, rdt, par) ==
    IF ~npAny(d) \/ (par /\ ~(SeqMax(del) > 0 \/ rdt > 1)) THEN {}
    ELSE {i * rdt + del[k] + r :
              i \in 0..((Len(d) - SeqMax(del)) \div rdt - 1), k \in DOMAIN del,
              r \in 0..(rdt - 1)}

KernelReads ==
    CASE op = "dedisperse" -> dedisperse_reads(data, delay, parallel)
      [] op = "dedisperseresample" -> dedisperseresample_reads(data, delay, dt, parallel)
      [] OTHER -> {}

\* C30: every integration index read by the dedisperse and the fused
\* kernels, sequential and parallel, lies in [0, nint), and with
\* max(delay) > nint the wrapper fails before a kernel reads.
C30_ReadsInRangeOrFails ==
    (op \in {"dedisperse", "dedisperseresample"} /\ npAny(data)) =>
        /\ \A x \in KernelReads : 0 <= x /\ x < Len(data)
        /\ SeqMax(delay) > Len(data) => (result.kind = "error" /\ KernelReads = {})

\* C30 without the failure of the parallel wrapper: no kernel reads outside
\* the cube, and with max(delay) > nint no kernel reads at all; the
\* sequential wrapper fails
C30_ReadsInRange ==
    op \in {"dedisperse", "dedisperseresample"} =>
        /\ \A x \in KernelReads : 0 <= x /\ x < Len(data)
        /\ SeqMax(delay) > Len(data) =>
              /\ KernelReads = {}
              /\ (npAny(data) /\ ~parallel) => result.kind = "error"

\* C10: when the extractor has returned, every candidate that was appended
\* to canddatalist is in the returned collection.
C10_FinalFlush ==
    pc = "done" =>
        \A n \in 1..Len(appended) :
            \E m \in 1..Len(candcollection) : candcollection[m] = appended[n]

\* C10 restricted to the modes image1 and image1k and to the cuda path
C10_FinalFlushImage ==
    (st.prefs.fftmode = "cuda" \/ st.prefs.searchtype \in {"image1", "image1k"}) =>
        C10_FinalFlush

====
